---- MODULE Spec2Model ----
(***************************************************************************)
(* A model of the import-resolution engine of whoimportme (resolver.ts):   *)
(* parseImports, resolveImportPath, findImporters, findDirectoryImporters. *)
(*                                                                         *)
(* A string of the program is a sequence of one-character strings, so that *)
(* startsWith, slice, the path functions and the extension regexes are     *)
(* computed character by character as the code computes them.              *)
(***************************************************************************)
EXTENDS Integers, Sequences, FiniteSets, TLC

VARIABLES
  fsKind,        \* the file system: normalized absolute path -> "file" | "dir"
  importMapFile, \* <root>/import_map.json: [st |-> "absent" | "malformed" | "ok", imports]
  tsConfigFile,  \* <root>/tsconfig.json:   [st |-> "absent" | "malformed" | "ok", baseUrl, paths]
  pc,            \* position of the running entry point
  call,          \* the arguments and locals of the running entry point
  importers,     \* findImporters: the ResolvedImport list built so far
  importGroups,  \* findDirectoryImporters: the insertion-ordered Map of groups
  outcome,       \* what the entry point returned or threw
  readLog,       \* the candidate files handed to parseImports so far
  lastResolve,   \* the last direct call of resolveImportPath and its value
  parser,        \* the state of a direct parseImports call, line by line
  scanner,       \* scan: its arguments, its caches and the list built so far
  cli            \* main: the options, the exit code and the lines printed

vars == <<fsKind, importMapFile, tsConfigFile, pc, call, importers,
          importGroups, outcome, readLog, lastResolve, parser, scanner, cli>>

-----------------------------------------------------------------------------
(* Strings *)

Empty == <<>>

StartsWith(s, p) == Len(p) <= Len(s) /\ SubSeq(s, 1, Len(p)) = p

Includes(s, w) == \E i \in 1..(Len(s) - Len(w) + 1) : SubSeq(s, i, i + Len(w) - 1) = w

Slice(s, n) == SubSeq(s, n + 1, Len(s))

Last(s) == s[Len(s)]

Front(s) == SubSeq(s, 1, Len(s) - 1)

SetMax(S) == CHOOSE x \in S : \A y \in S : y <= x

SetMin(S) == CHOOSE x \in S : \A y \in S : x <= y

Sep == "/"

DotSeg == <<".">>

DotDotSeg == <<".", ".">>

-----------------------------------------------------------------------------
(* std/path (posix) *)

\* Deno.cwd(): the directory the tool is started in.
Cwd == <<"/", "r">>

RECURSIVE SplitPath(_)
SplitPath(s) ==
  IF \A i \in 1..Len(s) : s[i] # Sep THEN <<s>>
  ELSE LET k == SetMin({i \in 1..Len(s) : s[i] = Sep})
       IN  <<SubSeq(s, 1, k - 1)>> \o SplitPath(SubSeq(s, k + 1, Len(s)))

RECURSIVE JoinSegs(_)
JoinSegs(segs) ==
  IF segs = <<>> THEN <<>>
  ELSE IF Len(segs) = 1 THEN segs[1]
  ELSE segs[1] \o <<Sep>> \o JoinSegs(Tail(segs))

\* normalizeString: drops empty and "." segments, resolves ".." against the
\* segments kept so far; above the root ".." is dropped unless allowAboveRoot.
RECURSIVE NormalizeSegs(_, _, _)
NormalizeSegs(segs, acc, allowAboveRoot) ==
  IF segs = <<>> THEN acc
  ELSE LET c == Head(segs)
       IN  IF c = Empty \/ c = DotSeg
             THEN NormalizeSegs(Tail(segs), acc, allowAboveRoot)
           ELSE IF c = DotDotSeg
             THEN IF acc # <<>> /\ Last(acc) # DotDotSeg
                    THEN NormalizeSegs(Tail(segs), Front(acc), allowAboveRoot)
                  ELSE IF allowAboveRoot
                    THEN NormalizeSegs(Tail(segs), Append(acc, c), allowAboveRoot)
                  ELSE NormalizeSegs(Tail(segs), acc, allowAboveRoot)
           ELSE NormalizeSegs(Tail(segs), Append(acc, c), allowAboveRoot)

\* The right-to-left concatenation of resolve(): stops at the first absolute
\* argument, falls back on the working directory.
RECURSIVE ResolveJoin(_, _, _)
ResolveJoin(args, i, acc) ==
  IF i = 0 THEN Cwd \o <<Sep>> \o acc
  ELSE LET p == args[i]
       IN  IF p = Empty THEN ResolveJoin(args, i - 1, acc)
           ELSE IF p[1] = Sep THEN p \o <<Sep>> \o acc
           ELSE ResolveJoin(args, i - 1, p \o <<Sep>> \o acc)

\* resolve(...args): always absolute and normalized, no trailing separator.
Resolve(args) ==
  <<Sep>> \o JoinSegs(NormalizeSegs(SplitPath(ResolveJoin(args, Len(args), <<>>)), <<>>, FALSE))

StripTrailingSeps(p) ==
  LET keep == {i \in 1..Len(p) : p[i] # Sep}
  IN  IF keep = {} THEN SubSeq(p, 1, 1) ELSE SubSeq(p, 1, SetMax(keep))

Dirname(p) ==
  IF p = Empty THEN DotSeg
  ELSE LET ends == {j \in 2..Len(p) : p[j] = Sep /\ \E k \in (j + 1)..Len(p) : p[k] # Sep}
       IN  IF ends = {} THEN (IF p[1] = Sep THEN <<Sep>> ELSE DotSeg)
           ELSE StripTrailingSeps(SubSeq(p, 1, SetMax(ends) - 1))

\* normalize(p): keeps a relative path relative and a trailing separator.
Normalize(p) ==
  IF p = Empty THEN DotSeg
  ELSE LET isAbs == p[1] = Sep
           body  == JoinSegs(NormalizeSegs(SplitPath(p), <<>>, ~isAbs))
           body1 == IF body = Empty /\ ~isAbs THEN DotSeg ELSE body
           body2 == IF body1 # Empty /\ Last(p) = Sep THEN body1 \o <<Sep>> ELSE body1
       IN  IF isAbs THEN <<Sep>> \o body2 ELSE body2

\* join(a, b)
Join(a, b) ==
  IF a = Empty /\ b = Empty THEN DotSeg
  ELSE IF a = Empty THEN Normalize(b)
  ELSE IF b = Empty THEN Normalize(a)
  ELSE Normalize(a \o <<Sep>> \o b)

RECURSIVE CommonLen(_, _)
CommonLen(a, b) ==
  IF a = <<>> \/ b = <<>> \/ Head(a) # Head(b) THEN 0
  ELSE 1 + CommonLen(Tail(a), Tail(b))

\* relative(from, to): both resolved, then the ".." steps out of from
\* followed by the rest of to.
Relative(from, to) ==
  LET f  == NormalizeSegs(SplitPath(Resolve(<<from>>)), <<>>, FALSE)
      t  == NormalizeSegs(SplitPath(Resolve(<<to>>)), <<>>, FALSE)
      n  == CommonLen(f, t)
      up == [i \in 1..(Len(f) - n) |-> DotDotSeg]
  IN  JoinSegs(up \o SubSeq(t, n + 1, Len(t)))

-----------------------------------------------------------------------------
(* The file system: Deno.statSync and existsSync *)

KindOf(np) == IF np \in DOMAIN fsKind THEN fsKind[np] ELSE "none"

KindAt(segs) == IF segs = <<>> THEN "dir" ELSE KindOf(<<Sep>> \o JoinSegs(segs))

\* The kernel's path walk: every step but the last must be made from a
\* directory; "." and empty steps stay, ".." goes to the parent.
RECURSIVE Walk(_, _)
Walk(segs, cur) ==
  IF segs = <<>> THEN KindAt(cur)
  ELSE IF KindAt(cur) # "dir" THEN "none"
  ELSE LET c == Head(segs)
       IN  IF c = Empty \/ c = DotSeg THEN Walk(Tail(segs), cur)
           ELSE IF c = DotDotSeg
             THEN Walk(Tail(segs), IF cur = <<>> THEN cur ELSE Front(cur))
           ELSE Walk(Tail(segs), Append(cur, c))

\* Deno.statSync(p): "file", "dir", or "none" when it throws NotFound.
Stat(p) ==
  IF p = Empty THEN "none"
  ELSE Walk(SplitPath(IF p[1] = Sep THEN p ELSE Cwd \o <<Sep>> \o p), <<>>)

ExistsSync(p) == Stat(p) # "none"

-----------------------------------------------------------------------------
(* Source text.  A line is a sequence of tokens [k, s]: k is the token's   *)
(* kind and s its text.  A quoted string is one token of kind "str" whose  *)
(* text is the text between the quotes; a word of [\w$]+ has kind "id", or *)
(* the kind of the keyword it is.  Tokens stand for the line's text with   *)
(* the white space the patterns ask for.                                   *)

\* The words of the lines.
Word ==
  [import |-> <<"i", "m", "p", "o", "r", "t">>,
   from |-> <<"f", "r", "o", "m">>,
   require |-> <<"r", "e", "q", "u", "i", "r", "e">>,
   type |-> <<"t", "y", "p", "e">>,
   as |-> <<"a", "s">>,
   const |-> <<"c", "o", "n", "s", "t">>,
   await |-> <<"a", "w", "a", "i", "t">>,
   function |-> <<"f", "u", "n", "c", "t", "i", "o", "n">>,
   x |-> <<"x">>,
   m |-> <<"m">>,
   importAll |-> <<"i", "m", "p", "o", "r", "t", "A", "l", "l">>]

Tok(k, s) == [k |-> k, s |-> s]

\* A keyword: import, from, require, as.
Kw(k) == Tok(k, Word[k])

\* A punctuation mark of one character.
Punct(k) == Tok(k, <<k>>)

Id(s) == Tok("id", s)

Str(s) == Tok("str", s)

\* The kinds of token that [\w$]+ matches.
WordKinds == {"id", "import", "from", "require", "as", "decl"}

\* line.includes(w)
LineIncludes(line, w) == \E i \in 1..Len(line) : Includes(line[i].s, w)

\* !line.trim()
IsBlank(line) == line = <<>>

\* line.trim().startsWith("//")
IsComment(line) == line # <<>> /\ line[1].k = "//"

NoMatch == [ok |-> FALSE, cap |-> <<>>]

\* One element of a pattern against the tokens from position j on: the
\* position after it, or 0.  "{}" is {[^}]*}: an opening brace up to the
\* first closing one.
ElemEnd(e, line, j) ==
  IF j > Len(line) THEN 0
  ELSE IF e = "{}"
    THEN IF line[j].k = "{" /\ \E m \in (j + 1)..Len(line) : line[m].k = "}"
           THEN SetMin({m \in (j + 1)..Len(line) : line[m].k = "}"}) + 1
         ELSE 0
  ELSE IF e = "id" THEN (IF line[j].k \in WordKinds THEN j + 1 ELSE 0)
  ELSE IF e = "type" THEN (IF line[j].k = "id" /\ line[j].s = Word.type THEN j + 1 ELSE 0)
  ELSE IF line[j].k = e THEN j + 1 ELSE 0

\* A pattern matched at position j: [ok, cap], cap the text of its quoted string.
RECURSIVE MatchAt(_, _, _, _)
MatchAt(pat, line, j, cap) ==
  IF pat = <<>> THEN [ok |-> TRUE, cap |-> cap]
  ELSE LET nxt == ElemEnd(Head(pat), line, j)
       IN  IF nxt = 0 THEN NoMatch
           ELSE MatchAt(Tail(pat), line, nxt,
                        IF Head(pat) = "str" THEN line[j].s ELSE cap)

\* A pattern anchored at the start of the line (^\s*...).
MatchStart(pat, line) == MatchAt(pat, line, 1, <<>>)

\* An unanchored pattern: its leftmost match.
MatchAnywhere(pat, line) ==
  LET hits == {j \in 1..Len(line) : MatchAt(pat, line, j, <<>>).ok}
  IN  IF hits = {} THEN NoMatch ELSE MatchAt(pat, line, SetMin(hits), <<>>)

es6ImportPatterns ==
  << <<"import", "id", "from", "str", ";">>,
     <<"import", "{}", "from", "str", ";">>,
     <<"import", "*", "as", "id", "from", "str", ";">>,
     <<"import", "str", ";">>,
     <<"import", "id", ",", "{}", "from", "str", ";">>,
     <<"import", "type", "{}", "from", "str", ";">> >>

cjsRequirePatterns ==
  << <<"decl", "id", "=", "require", "(", "str", ")">>,
     <<"decl", "{}", "=", "require", "(", "str", ")">>,
     <<"decl", "id", "=", "require", "(", "str", ")", ".", "id">>,
     <<"require", "(", "str", ")">>,
     <<"import", "id", "=", "require", "(", "str", ")">> >>

dynamicImportPattern == <<"import", "(", "str", ")">>

\* The regex the aggregated multi-line text is tried against.
multiLinePattern == <<"import", "{}", "from", "str", ";">>

\* for (const pattern of es6ImportPatterns): the first pattern that matches.
FirstEs6(line) ==
  LET hits == {p \in 1..Len(es6ImportPatterns) : MatchStart(es6ImportPatterns[p], line).ok}
  IN  IF hits = {} THEN NoMatch ELSE MatchStart(es6ImportPatterns[SetMin(hits)], line)

\* for (const pattern of cjsRequirePatterns): the first pattern that matches.
FirstCjs(line) ==
  LET hits == {p \in 1..Len(cjsRequirePatterns) : MatchAnywhere(cjsRequirePatterns[p], line).ok}
  IN  IF hits = {} THEN NoMatch ELSE MatchAnywhere(cjsRequirePatterns[SetMin(hits)], line)

\* A record numbered by the index of the loop, which starts at 0.
ImportStatementAtIndex(type, module, isDynamic, lineNumber) ==
  [type |-> type, module |-> module, isDynamic |-> isDynamic, lineNumber |-> lineNumber - 1]

ImportStatement(type, module, isDynamic, lineNumber) ==
  [type |-> type, module |-> module, isDynamic |-> isDynamic, lineNumber |-> lineNumber]

\* The locals of the loop of parseImports before its first line.
ParseStart == [multiLineImport |-> <<>>, multiLineImportStartLine |-> 0, imports |-> <<>>]

\* The line a multi-line import starts on.
StartsMultiLine(line) ==
  LineIncludes(line, Word.import) /\ LineIncludes(line, <<"{">>) /\ ~LineIncludes(line, <<"}">>)

\* One iteration of the loop of parseImports, on line number lineNumber.
ParseLine(st, line, lineNumber) ==
  IF IsBlank(line) \/ IsComment(line) THEN st
  ELSE IF StartsMultiLine(line)
    THEN [st EXCEPT !.multiLineImport = line, !.multiLineImportStartLine = lineNumber]
  ELSE IF st.multiLineImport # <<>> /\ ~LineIncludes(line, Word.from)
    THEN [st EXCEPT !.multiLineImport = st.multiLineImport \o line]
  ELSE IF st.multiLineImport # <<>>
    THEN LET m == MatchStart(multiLinePattern, st.multiLineImport \o line)
         IN  [st EXCEPT !.multiLineImport = <<>>,
                        !.imports = IF m.ok
                                      THEN Append(st.imports,
                                             ImportStatement("es6", m.cap, FALSE,
                                                             st.multiLineImportStartLine))
                                    ELSE st.imports]
  ELSE IF FirstEs6(line).ok
    THEN [st EXCEPT !.imports = Append(st.imports,
                       ImportStatement("es6", FirstEs6(line).cap, FALSE, lineNumber))]
  ELSE IF FirstCjs(line).ok
    THEN [st EXCEPT !.imports = Append(st.imports,
                       ImportStatement("commonjs", FirstCjs(line).cap, FALSE, lineNumber))]
  ELSE IF MatchAnywhere(dynamicImportPattern, line).ok
    THEN [st EXCEPT !.imports = Append(st.imports,
                       ImportStatement("es6", MatchAnywhere(dynamicImportPattern, line).cap,
                                       TRUE, lineNumber))]
  ELSE st

\* The loop of parseImports over the first n lines.
RECURSIVE ParseLoop(_, _)
ParseLoop(lines, n) ==
  IF n = 0 THEN ParseStart ELSE ParseLine(ParseLoop(lines, n - 1), lines[n], n)

\* parseImports on the text of a file that was read.
ParseText(lines) == ParseLoop(lines, Len(lines)).imports

-----------------------------------------------------------------------------
(* Alias configuration *)

\* An ImportMap: null, or its "imports" as the entries Object.entries yields,
\* in declaration order.
NullImportMap == [isNull |-> TRUE, imports |-> <<>>]

ImportMapOf(entries) == [isNull |-> FALSE, imports |-> entries]

\* A TsConfig: null, or compilerOptions.baseUrl and the entries of
\* compilerOptions.paths in declaration order.
NullTsConfig == [isNull |-> TRUE, baseUrl |-> <<>>, paths |-> <<>>]

TsConfigOf(baseUrl, paths) == [isNull |-> FALSE, baseUrl |-> baseUrl, paths |-> paths]

\* importMap.imports[importPath]: the value under that key, "" when there is none.
ImportsAt(importMap, importPath) ==
  LET hits == {i \in 1..Len(importMap.imports) : importMap.imports[i].key = importPath}
  IN  IF hits = {} THEN <<>> ELSE importMap.imports[SetMax(hits)].value

\* The characters /[-\/\\^$*+?.()|[\]{}]/ escapes.
RegexSpecial == {"-", "/", "\\", "^", "$", "*", "+", "?", ".", "(", ")", "|", "[", "]", "{", "}"}

\* pattern.replace(/\*/g, "(.*)")
RECURSIVE StarsToGroups(_)
StarsToGroups(s) ==
  IF s = <<>> THEN <<>>
  ELSE (IF Head(s) = "*" THEN <<"(", ".", "*", ")">> ELSE <<Head(s)>>) \o StarsToGroups(Tail(s))

\* s.replace(/[-\/\\^$*+?.()|[\]{}]/g, "\\$&")
RECURSIVE EscapeSpecial(_)
EscapeSpecial(s) ==
  IF s = <<>> THEN <<>>
  ELSE (IF Head(s) \in RegexSpecial THEN <<"\\", Head(s)>> ELSE <<Head(s)>>)
       \o EscapeSpecial(Tail(s))

\* The source of the regex built from a paths pattern: the wildcards are
\* replaced first and the result is escaped afterwards.
RegexPattern(pattern) == EscapeSpecial(StarsToGroups(pattern))

\* A regex source read as items: an escaped character is that character, an
\* unescaped (.*) is a capture group, anything else is itself.
RECURSIVE RegexItems(_)
RegexItems(src) ==
  IF src = <<>> THEN <<>>
  ELSE IF Head(src) = "\\" /\ Len(src) >= 2
    THEN <<[group |-> FALSE, c |-> src[2]]>> \o RegexItems(Slice(src, 2))
  ELSE IF StartsWith(src, <<"(", ".", "*", ")">>)
    THEN <<[group |-> TRUE, c |-> "*"]>> \o RegexItems(Slice(src, 4))
  ELSE <<[group |-> FALSE, c |-> Head(src)]>> \o RegexItems(Tail(src))

\* Whether the items match all of s (the regex is anchored by ^ and $).
RECURSIVE ItemsMatch(_, _)
ItemsMatch(items, s) ==
  IF items = <<>> THEN s = <<>>
  ELSE IF Head(items).group
    THEN \E n \in 0..Len(s) : ItemsMatch(Tail(items), Slice(s, n))
  ELSE s # <<>> /\ Head(s) = Head(items).c /\ ItemsMatch(Tail(items), Tail(s))

\* importPath.match(new RegExp(`^${regexPattern}$`)): whether it matched, how
\* many groups it has, and what the first group captured (greedily).
RegexMatch(src, s) ==
  LET items  == RegexItems(src)
      groups == {i \in 1..Len(items) : items[i].group}
      g      == SetMin(groups)
      spans  == {n \in 0..(Len(s) - (g - 1)) :
                   ItemsMatch(SubSeq(items, g + 1, Len(items)), Slice(s, g - 1 + n))}
  IN  [ok     |-> ItemsMatch(items, s),
       groups |-> Cardinality(groups),
       first  |-> IF groups # {} /\ ItemsMatch(items, s)
                    THEN SubSeq(s, g, g - 1 + SetMax(spans))
                  ELSE <<>>]

\* replacement.replace(/\*/g, match[1])
RECURSIVE SubstituteStars(_, _)
SubstituteStars(template, captured) ==
  IF template = <<>> THEN <<>>
  ELSE (IF Head(template) = "*" THEN captured ELSE <<Head(template)>>)
       \o SubstituteStars(Tail(template), captured)

-----------------------------------------------------------------------------
(* resolveImportPath *)

extensions ==
  << <<".", "t", "s">>, <<".", "t", "s", "x">>, <<".", "j", "s">>,
     <<".", "j", "s", "x">>, <<".", "m", "j", "s">>, <<".", "c", "j", "s">> >>

sIndex == <<"i", "n", "d", "e", "x">>

\* A resolved path, or null.
NullPath == [isNull |-> TRUE, path |-> <<>>]

PathOf(p) == [isNull |-> FALSE, path |-> p]

\* /\.[^/.]+$/.test(p)
HasExtension(p) ==
  \E i \in 1..(Len(p) - 1) : p[i] = "." /\ \A j \in (i + 1)..Len(p) : p[j] \notin {"/", "."}

\* p.replace(/\.[^/.]+$/, "")
StripExtension(p) ==
  IF HasExtension(p)
    THEN SubSeq(p, 1, SetMax({i \in 1..(Len(p) - 1) : p[i] = "."}) - 1)
  ELSE p


\* The extensions probed from the last to the first.
LastWithExt(base) ==
  LET hits == {e \in 1..Len(extensions) : ExistsSync(base \o extensions[e])}
  IN  IF hits = {} THEN NullPath ELSE PathOf(base \o extensions[SetMax(hits)])

\* for (const ext of extensions): the first base + ext that exists.
FirstWithExt(base) ==
  LET hits == {e \in 1..Len(extensions) : ExistsSync(base \o extensions[e])}
  IN  IF hits = {} THEN NullPath ELSE PathOf(base \o extensions[SetMin(hits)])

\* for (const ext of extensions): the first index<ext> of the directory that exists.
FirstIndex(dir) ==
  LET hits == {e \in 1..Len(extensions) : ExistsSync(Join(dir, sIndex \o extensions[e]))}
  IN  IF hits = {} THEN NullPath ELSE PathOf(Join(dir, sIndex \o extensions[SetMin(hits)]))

\* The import-map step with the longest key that is a prefix instead of the
\* first one.
ResolveByLongestPrefix(importerPath, importPath, importMap) ==
  IF importMap.isNull THEN NullPath
  ELSE IF ImportsAt(importMap, importPath) # <<>>
    THEN PathOf(Resolve(<<Dirname(importerPath), ImportsAt(importMap, importPath)>>))
  ELSE LET hits == {i \in 1..Len(importMap.imports) :
                      StartsWith(importPath, importMap.imports[i].key)}
           e    == importMap.imports[CHOOSE i \in hits :
                     \A j \in hits : Len(importMap.imports[j].key)
                                        <= Len(importMap.imports[i].key)]
       IN  IF hits = {} THEN NullPath
           ELSE PathOf(Resolve(<<Dirname(importerPath), e.value,
                                 Slice(importPath, Len(e.key))>>))

\* The import-map step: the exact key first (when its value is truthy), then
\* the first key in declaration order that is a prefix.
ResolveByImportMap(importerPath, importPath, importMap) ==
  IF importMap.isNull THEN NullPath
  ELSE IF ImportsAt(importMap, importPath) # <<>>
    THEN PathOf(Resolve(<<Dirname(importerPath), ImportsAt(importMap, importPath)>>))
  ELSE LET hits == {i \in 1..Len(importMap.imports) :
                      StartsWith(importPath, importMap.imports[i].key)}
           e    == importMap.imports[SetMin(hits)]
       IN  IF hits = {} THEN NullPath
           ELSE PathOf(Resolve(<<Dirname(importerPath), e.value,
                                 Slice(importPath, Len(e.key))>>))

\* Whether a paths entry applies: its regex matches and it has a replacement.
PathsEntryApplies(entry, importPath) ==
  RegexMatch(RegexPattern(entry.pattern), importPath).ok /\ Len(entry.replacements) > 0

\* The tsconfig step: the first paths entry in declaration order that applies.
ResolveByTsConfig(importerPath, importPath, tsConfig) ==
  IF tsConfig.isNull \/ tsConfig.baseUrl = <<>> THEN NullPath
  ELSE LET hits == {i \in 1..Len(tsConfig.paths) : PathsEntryApplies(tsConfig.paths[i], importPath)}
           e    == tsConfig.paths[SetMin(hits)]
           m    == RegexMatch(RegexPattern(e.pattern), importPath)
           repl == IF m.groups > 0 THEN SubstituteStars(e.replacements[1], m.first)
                   ELSE e.replacements[1]
       IN  IF hits = {} THEN NullPath
           ELSE PathOf(Resolve(<<Dirname(importerPath), tsConfig.baseUrl, repl>>))

\* The relative step ending as the absolute step does: null when nothing exists.
ResolveRelativeOrNull(importerPath, importPath) ==
  LET resolved == Resolve(<<Dirname(importerPath), importPath>>)
      base     == StripExtension(resolved)
  IN  IF ExistsSync(resolved) THEN PathOf(resolved)
      ELSE IF Stat(resolved) = "dir" /\ ~FirstIndex(resolved).isNull THEN FirstIndex(resolved)
      ELSE FirstWithExt(base)

\* The relative step (importPath starts with ./ or ../).
ResolveRelative(importerPath, importPath) ==
  LET resolved == Resolve(<<Dirname(importerPath), importPath>>)
      base     == StripExtension(resolved)
  IN  IF ExistsSync(resolved) THEN PathOf(resolved)
      ELSE IF Stat(resolved) = "dir" /\ ~FirstIndex(resolved).isNull THEN FirstIndex(resolved)
      ELSE IF ~FirstWithExt(base).isNull THEN FirstWithExt(base)
      ELSE PathOf(resolved)

\* The absolute step (importPath starts with /).
ResolveAbsolute(importPath) ==
  IF ExistsSync(importPath) THEN PathOf(importPath)
  ELSE FirstWithExt(StripExtension(importPath))


\* The steps with the tsconfig paths tried before the import map.
resolveTsConfigFirst(importerPath, importPath, importMap, tsConfig) ==
  IF ~ResolveByTsConfig(importerPath, importPath, tsConfig).isNull
    THEN ResolveByTsConfig(importerPath, importPath, tsConfig)
  ELSE IF ~ResolveByImportMap(importerPath, importPath, importMap).isNull
    THEN ResolveByImportMap(importerPath, importPath, importMap)
  ELSE IF StartsWith(importPath, <<".", "/">>) \/ StartsWith(importPath, <<".", ".", "/">>)
    THEN ResolveRelative(importerPath, importPath)
  ELSE IF StartsWith(importPath, <<"/">>)
    THEN ResolveAbsolute(importPath)
  ELSE NullPath

resolveImportPath(importerPath, importPath, importMap, tsConfig) ==
  IF ~ResolveByImportMap(importerPath, importPath, importMap).isNull
    THEN ResolveByImportMap(importerPath, importPath, importMap)
  ELSE IF ~ResolveByTsConfig(importerPath, importPath, tsConfig).isNull
    THEN ResolveByTsConfig(importerPath, importPath, tsConfig)
  ELSE IF StartsWith(importPath, <<".", "/">>) \/ StartsWith(importPath, <<".", ".", "/">>)
    THEN ResolveRelative(importerPath, importPath)
  ELSE IF StartsWith(importPath, <<"/">>)
    THEN ResolveAbsolute(importPath)
  ELSE NullPath

-----------------------------------------------------------------------------
(* Fixtures: the tree the entry points are run on *)

\* The paths of the fixture tree: /r with a.ts, b, b.ts, b.js, u.ts, g.ts, zz and
\* the directories n (c.ts), l (x.ts, index.ts; beside it l.ts) and l2 (y.ts); and
\* the relative names b.ts, b and l/ (the working directory is /r).
Path ==
  [root |-> <<"/", "r">>,
   a |-> <<"/", "r", "/", "a", ".", "t", "s">>,
   b |-> <<"/", "r", "/", "b">>,
   bts |-> <<"/", "r", "/", "b", ".", "t", "s">>,
   bjs |-> <<"/", "r", "/", "b", ".", "j", "s">>,
   n |-> <<"/", "r", "/", "n">>,
   c |-> <<"/", "r", "/", "n", "/", "c", ".", "t", "s">>,
   l |-> <<"/", "r", "/", "l">>,
   lts |-> <<"/", "r", "/", "l", ".", "t", "s">>,
   lx |-> <<"/", "r", "/", "l", "/", "x", ".", "t", "s">>,
   lindex |-> <<"/", "r", "/", "l", "/", "i", "n", "d", "e", "x", ".", "t", "s">>,
   l2 |-> <<"/", "r", "/", "l", "2">>,
   l2y |-> <<"/", "r", "/", "l", "2", "/", "y", ".", "t", "s">>,
   u |-> <<"/", "r", "/", "u", ".", "t", "s">>,
   gone |-> <<"/", "r", "/", "g", ".", "t", "s">>,
   missing |-> <<"/", "r", "/", "z", "z">>,
   relBts |-> <<"b", ".", "t", "s">>,
   relB |-> <<"b">>,
   relLslash |-> <<"l", "/">>]

\* The specifiers, alias keys and replacements of the fixtures: ./b.ts, ./b,
\* ../b, ../b.ts, /r/./b.ts, ./l/x.ts, ./l, ../l/x.ts, ../l/index.ts,
\* ./index.ts, button, @b, @c/x.ts, react, @c/, @c/*, ./l2/, l/*, ./b.js and .
Specifier ==
  [dotBts |-> <<".", "/", "b", ".", "t", "s">>,
   dotB |-> <<".", "/", "b">>,
   upB |-> <<".", ".", "/", "b">>,
   upBts |-> <<".", ".", "/", "b", ".", "t", "s">>,
   absBts |-> <<"/", "r", "/", ".", "/", "b", ".", "t", "s">>,
   dotLx |-> <<".", "/", "l", "/", "x", ".", "t", "s">>,
   dotL |-> <<".", "/", "l">>,
   upLx |-> <<".", ".", "/", "l", "/", "x", ".", "t", "s">>,
   upLindex |-> <<".", ".", "/", "l", "/", "i", "n", "d", "e", "x", ".", "t", "s">>,
   dotIndex |-> <<".", "/", "i", "n", "d", "e", "x", ".", "t", "s">>,
   button |-> <<"b", "u", "t", "t", "o", "n">>,
   atB |-> <<"@", "b">>,
   atCx |-> <<"@", "c", "/", "x", ".", "t", "s">>,
   react |-> <<"r", "e", "a", "c", "t">>,
   atC |-> <<"@", "c", "/">>,
   atCstar |-> <<"@", "c", "/", "*">>,
   l2 |-> <<".", "/", "l", "2", "/">>,
   lstar |-> <<"l", "/", "*">>,
   bjs |-> <<".", "/", "b", ".", "j", "s">>,
   dot |-> <<".">>]

\* import x from '<spec>';
LineImportFrom(spec) == <<Kw("import"), Id(Word.x), Kw("from"), Str(spec), Punct(";")>>

\* import { x } from '<spec>';
LineNamed(spec) ==
  <<Kw("import"), Punct("{"), Id(Word.x), Punct("}"), Kw("from"), Str(spec), Punct(";")>>

\* const x = require('<spec>')
LineRequire(spec) ==
  <<Tok("decl", Word.const), Id(Word.x), Punct("="), Kw("require"), Punct("("), Str(spec),
    Punct(")")>>

\* const m = await import('<spec>')
LineDynamic(spec) ==
  <<Tok("decl", Word.const), Id(Word.m), Punct("="), Id(Word.await), Kw("import"),
    Punct("("), Str(spec), Punct(")")>>

\* const x = require('<spec1>'), m = import('<spec2>')
LineRequireAndDynamic(spec1, spec2) ==
  LineRequire(spec1)
  \o <<Punct(","), Id(Word.m), Punct("="), Kw("import"), Punct("("), Str(spec2), Punct(")")>>

\* import { x,
LineOpen == <<Kw("import"), Punct("{"), Id(Word.x), Punct(",")>>

\* m } from '<spec>';
LineClose(spec) == <<Id(Word.m), Punct("}"), Kw("from"), Str(spec), Punct(";")>>

\* const x = 1;
LineCode == <<Tok("decl", Word.const), Id(Word.x), Punct("="), Tok("num", <<"1">>), Punct(";")>>

\* // import x from '<spec>';
LineComment(spec) == <<Tok("//", <<"/", "/">>)>> \o LineImportFrom(spec)

\* function importAll() {
LineFunction == <<Id(Word.function), Id(Word.importAll), Punct("("), Punct(")"), Punct("{")>>

OptionalFiles == {Path.b, Path.bts, Path.bjs, Path.lts, Path.lindex}

\* A file system: the directories and files that are always there, and some
\* of the optional files.
FsWith(optional) ==
  LET dirs  == {Path.root, Path.n, Path.l, Path.l2}
      files == {Path.a, Path.c, Path.lx, Path.l2y, Path.u}
  IN  [p \in dirs \cup files \cup optional |-> IF p \in dirs THEN "dir" ELSE "file"]

\* The text of the files that can be read (Path.u exists but cannot be read).
FixtureText ==
  [p \in {Path.a, Path.b, Path.bts, Path.bjs, Path.c, Path.lts, Path.lx, Path.lindex,
          Path.l2y} |->
     IF p = Path.a THEN <<LineImportFrom(Specifier.dotBts), LineDynamic(Specifier.dotBts),
                          LineImportFrom(Specifier.absBts), LineNamed(Specifier.dotLx),
                          LineImportFrom(Specifier.atB), LineImportFrom(Specifier.button),
                          LineImportFrom(Specifier.l2 \o SubSeq(Path.l2y, 7, 10))>>
     ELSE IF p = Path.bts THEN <<LineImportFrom(Specifier.dotBts),
                                 LineImportFrom(Specifier.dotL)>>
     ELSE IF p = Path.c THEN <<LineRequire(Specifier.upB), LineImportFrom(Specifier.button),
                               LineImportFrom(Specifier.atCx), LineImportFrom(Specifier.atB),
                               LineImportFrom(Specifier.upLx),
                               LineImportFrom(Specifier.upLindex)>>
     ELSE IF p = Path.lx THEN <<LineImportFrom(Specifier.dotIndex),
                                LineImportFrom(Specifier.upBts)>>
     ELSE IF p = Path.l2y THEN <<LineImportFrom(Specifier.upLx),
                                 LineDynamic(Specifier.upLindex)>>
     ELSE <<LineCode>>]

\* { "imports": { "button": "./b.ts" } }
ImportMapButton == ImportMapOf(<<[key |-> Specifier.button, value |-> Specifier.dotBts]>>)

\* { "imports": { "@b": "./b.js", "@c/": "./l2/", "@c/x": "./b", "./l/": "./l2/" } }
ImportMapAt ==
  ImportMapOf(<<[key |-> Specifier.atB, value |-> Specifier.bjs],
                [key |-> Specifier.atC, value |-> Specifier.l2],
                [key |-> SubSeq(Specifier.atCx, 1, 4), value |-> Specifier.dotB],
                [key |-> SubSeq(Specifier.dotLx, 1, 4), value |-> Specifier.l2]>>)

\* { "compilerOptions": { "baseUrl": ".", "paths": { "@c/*": ["l/*"], "@b": ["./b.ts"] } } }
TsConfigPaths ==
  TsConfigOf(Specifier.dot, <<[pattern |-> Specifier.atCstar, replacements |-> <<Specifier.lstar>>],
                     [pattern |-> Specifier.atB, replacements |-> <<Specifier.dotBts>>]>>)

AbsentFile == [st |-> "absent", value |-> NullImportMap]

MalformedFile == [st |-> "malformed", value |-> NullImportMap]

JsonFile(v) == [st |-> "ok", value |-> v]

-----------------------------------------------------------------------------
(* parseImports(filePath), loadImportMap, loadTsConfig *)

\* What the loop of parseImports makes of the text of each fixture file.
FixtureImports == [p \in DOMAIN FixtureText |-> ParseText(FixtureText[p])]

\* parseImports(filePath): NotFound when the file does not exist, an Error
\* when it cannot be read, its import statements otherwise.
parseImports(filePath) ==
  IF ~ExistsSync(filePath) THEN [err |-> "NotFound", imports |-> <<>>]
  ELSE IF Stat(filePath) # "file" \/ Resolve(<<filePath>>) \notin DOMAIN FixtureText
    THEN [err |-> "Error", imports |-> <<>>]
  ELSE [err |-> "none", imports |-> FixtureImports[Resolve(<<filePath>>)]]

\* loadImportMap / loadTsConfig: null when the file is absent, an Error when
\* it cannot be parsed.
LoadJson(file, null) ==
  IF file.st = "absent" THEN [threw |-> FALSE, value |-> null]
  ELSE IF file.st = "malformed" THEN [threw |-> TRUE, value |-> null]
  ELSE [threw |-> FALSE, value |-> file.value]

\* try { importMap = await loadImportMap(rootPath) } catch { warn }
LoadedImportMap == IF LoadJson(importMapFile, NullImportMap).threw THEN NullImportMap
                   ELSE LoadJson(importMapFile, NullImportMap).value

\* tsconfig.json loaded in the try block of import_map.json, and so not
\* loaded when that one fails.
LoadedTsConfigInOneTry ==
  IF LoadJson(importMapFile, NullImportMap).threw \/ LoadJson(tsConfigFile, NullTsConfig).threw
    THEN NullTsConfig
  ELSE LoadJson(tsConfigFile, NullTsConfig).value

\* try { tsConfig = await loadTsConfig(rootPath) } catch { warn }
LoadedTsConfig == IF LoadJson(tsConfigFile, NullTsConfig).threw THEN NullTsConfig
                  ELSE LoadJson(tsConfigFile, NullTsConfig).value

-----------------------------------------------------------------------------
(* findImporters and findDirectoryImporters *)

MaxFiles == 2

ResolvedImport(sourceFile, importPath, resolvedPath, lineNumber) ==
  [sourceFile |-> sourceFile, importPath |-> importPath,
   resolvedPath |-> resolvedPath, lineNumber |-> lineNumber]

Importer(sourceFile, importPath, lineNumber) ==
  [sourceFile |-> sourceFile, importPath |-> importPath, lineNumber |-> lineNumber]

NoCall ==
  [fn |-> "none", target |-> <<>>, files |-> <<>>, rootPath |-> <<>>,
   importMap |-> NullImportMap, tsConfig |-> NullTsConfig,
   normalizedTargetPath |-> <<>>, isTargetDirectory |-> FALSE, i |-> 0, imports |-> <<>>]

NoOutcome == [kind |-> "none", value |-> <<>>]

\* The first step of findImporters' target normalization: what the target is.
TargetIsDirectory(normalizedTargetPath) == Stat(normalizedTargetPath) = "dir"


\* A file target taken as written, with no extension probe.
LiteralTarget(normalizedTargetPath) ==
  IF ExistsSync(normalizedTargetPath) THEN PathOf(normalizedTargetPath) ELSE NullPath

\* The file a file target stands for: itself when it exists, else its
\* extension-stripped base under the first probed extension that exists.
ProbedTarget(normalizedTargetPath) ==
  IF ExistsSync(normalizedTargetPath) THEN PathOf(normalizedTargetPath)
  ELSE FirstWithExt(StripExtension(normalizedTargetPath))


\* The skip test on the path as handed over, without resolve().
SkipsCandidateAsWritten(filePath, normalizedTargetPath, isTargetDirectory) ==
  IF isTargetDirectory THEN StartsWith(filePath, normalizedTargetPath)
  ELSE filePath = normalizedTargetPath

\* "Skip the target file or directory"
SkipsCandidate(filePath, normalizedTargetPath, isTargetDirectory) ==
  IF isTargetDirectory THEN StartsWith(Resolve(<<filePath>>), normalizedTargetPath)
  ELSE Resolve(<<filePath>>) = normalizedTargetPath


\* "Skip dynamic imports"
SkipsImport(imp) == imp.isDynamic

\* "Check if it resolves to our target file or directory"
MatchesTarget(resolvedPath, normalizedTargetPath, isTargetDirectory) ==
  IF isTargetDirectory THEN StartsWith(Resolve(<<resolvedPath>>), normalizedTargetPath)
  ELSE Resolve(<<resolvedPath>>) = normalizedTargetPath

\* The matches of one file put in front of the list instead of at its end.
RECURSIVE CollectMatchesInFront(_, _, _)
CollectMatchesInFront(filePath, imports, c) ==
  IF imports = <<>> THEN <<>>
  ELSE LET imp  == Head(imports)
           r    == resolveImportPath(filePath, imp.module, c.importMap, c.tsConfig)
           rest == CollectMatchesInFront(filePath, Tail(imports), c)
       IN  IF ~imp.isDynamic /\ ~r.isNull
              /\ MatchesTarget(r.path, c.normalizedTargetPath, c.isTargetDirectory)
             THEN rest \o <<ResolvedImport(filePath, imp.module, r.path, imp.lineNumber)>>
           ELSE rest

\* for (const imp of imports): the matches of one file, in the order of its imports.
RECURSIVE CollectMatches(_, _, _)
CollectMatches(filePath, imports, c) ==
  IF imports = <<>> THEN <<>>
  ELSE LET imp  == Head(imports)
           r    == resolveImportPath(filePath, imp.module, c.importMap, c.tsConfig)
           rest == CollectMatches(filePath, Tail(imports), c)
       IN  IF ~SkipsImport(imp) /\ ~r.isNull
              /\ MatchesTarget(r.path, c.normalizedTargetPath, c.isTargetDirectory)
             THEN <<ResolvedImport(filePath, imp.module, r.path, imp.lineNumber)>> \o rest
           ELSE rest

\* Whether the loop body gets as far as parseImports(filePath).
ReadsCandidate(filePath, c) ==
  ~SkipsCandidate(filePath, c.normalizedTargetPath, c.isTargetDirectory)
  /\ ExistsSync(filePath)

\* The imports of the last file read taken for those of a file that cannot
\* be read.
MatchesOfFileStale(filePath, c) ==
  IF ReadsCandidate(filePath, c)
    THEN CollectMatches(filePath,
                        IF parseImports(filePath).err = "none"
                          THEN parseImports(filePath).imports
                        ELSE c.imports, c)
  ELSE <<>>

\* What one iteration of the loop adds: nothing when the file is skipped or
\* when parseImports throws (the catch goes on with the next file).
MatchesOfFile(filePath, c) ==
  IF ReadsCandidate(filePath, c) /\ parseImports(filePath).err = "none"
    THEN CollectMatches(filePath, parseImports(filePath).imports, c)
  ELSE <<>>

\* The importer put in the group in place of those that are there.
PutInGroup(groups, key, importer) ==
  LET at == {g \in 1..Len(groups) : groups[g].importedFile = key}
  IN  IF at = {} THEN Append(groups, [importedFile |-> key, importers |-> <<importer>>])
      ELSE [groups EXCEPT ![SetMin(at)].importers = <<importer>>]

\* importGroups.get(key).push(importer), creating the group at the end of
\* the Map when the key is new.
AddToGroup(groups, key, importer) ==
  LET at == {g \in 1..Len(groups) : groups[g].importedFile = key}
  IN  IF at = {} THEN Append(groups, [importedFile |-> key, importers |-> <<importer>>])
      ELSE [groups EXCEPT ![SetMin(at)].importers = Append(@, importer)]

RECURSIVE AddMatches(_, _, _)
AddMatches(groups, matches, normalizedTargetPath) ==
  IF matches = <<>> THEN groups
  ELSE LET m == Head(matches)
       IN  AddMatches(AddToGroup(groups, Relative(normalizedTargetPath, m.resolvedPath),
                                 Importer(m.sourceFile, m.importPath, m.lineNumber)),
                      Tail(matches), normalizedTargetPath)

\* The collation order of the characters of the fixtures (punctuation,
\* digits, letters; upper case after its lower case).
Alphabet ==
  <<"_", "-", ".", "@", "*", "/", "0", "1", "2", "3", "4", "5", "6", "7", "8", "9",
    "a", "A", "b", "c", "d", "e", "f", "g", "h", "i", "j", "k", "l", "m", "n", "o",
    "p", "q", "r", "s", "t", "u", "v", "w", "x", "y", "z">>

CharRank(c) == SetMin({i \in 1..Len(Alphabet) : Alphabet[i] = c})

\* a.localeCompare(b) < 0
RECURSIVE ComesBefore(_, _)
ComesBefore(a, b) ==
  IF b = <<>> THEN FALSE
  ELSE IF a = <<>> THEN TRUE
  ELSE IF Head(a) = Head(b) THEN ComesBefore(Tail(a), Tail(b))
  ELSE CharRank(Head(a)) < CharRank(Head(b))

\* The array left in the order it was built in.
NotSorted(seq, field) == seq

\* Array.prototype.sort, which is stable, by the field named.
RECURSIVE SortedBy(_, _)
SortedBy(seq, field) ==
  IF seq = <<>> THEN <<>>
  ELSE LET rest == SortedBy(Front(seq), field)
           x    == Last(seq)
           keep == {k \in 0..Len(rest) : \A j \in 1..k : ~ComesBefore(x[field], rest[j][field])}
           at   == SetMax(keep)
       IN  SubSeq(rest, 1, at) \o <<x>> \o SubSeq(rest, at + 1, Len(rest))

\* The number of groups instead of the number of importers.
CountGroups(groups) == Len(groups)

RECURSIVE SumImporters(_)
SumImporters(groups) ==
  IF groups = <<>> THEN 0 ELSE Len(Head(groups).importers) + SumImporters(Tail(groups))

\* The DirectoryImporterResult built from the Map.
DirectoryResult(c, groupsMap) ==
  LET sorted == SortedBy(groupsMap, "importedFile")
      groups == [g \in 1..Len(sorted) |->
                   [importedFile |-> sorted[g].importedFile,
                    importers |-> SortedBy(sorted[g].importers, "sourceFile")]]
  IN  [target |-> c.target, root |-> c.rootPath,
       count |-> SumImporters(groups), groups |-> groups]

\* The files the scanner may hand over.
Candidates == {Path.a, Path.relBts, Path.c, Path.lx, Path.l2y, Path.u, Path.gone}

\* File lists: up to MaxFiles candidates, none twice.
FileLists ==
  UNION {{f \in [1..n -> Candidates] : \A i, j \in 1..n : f[i] = f[j] => i = j} : n \in 0..MaxFiles}

Targets == {Path.bts, Path.relB, Path.l, Path.relLslash, Path.missing}

\* findImporters(target, files, root) is called: the configuration is loaded.
CallFindImporters(target, files) ==
  /\ pc = "idle"
  /\ call' = [NoCall EXCEPT !.fn = "findImporters", !.target = target, !.files = files,
                            !.rootPath = Path.root, !.importMap = LoadedImportMap,
                            !.tsConfig = LoadedTsConfig,
                            !.normalizedTargetPath = Resolve(<<target>>), !.i = 1]
  /\ pc' = "target"
  /\ UNCHANGED <<cli, scanner, fsKind, importMapFile, tsConfigFile, importers, importGroups, outcome,
                 readLog, lastResolve, parser>>

\* findImporters: "Normalize target path for comparison" up to the NotFound.
NormalizeTarget ==
  /\ pc = "target"
  /\ call.fn = "findImporters"
  /\ LET norm  == call.normalizedTargetPath
         isDir == TargetIsDirectory(norm)
     IN  IF isDir
           THEN /\ call' = [call EXCEPT !.isTargetDirectory = TRUE]
                /\ pc' = "loop"
                /\ outcome' = outcome
         ELSE IF ProbedTarget(norm).isNull
           THEN /\ pc' = "threw"
                /\ outcome' = [kind |-> "NotFound", value |-> <<>>]
                /\ call' = call
         ELSE /\ call' = [call EXCEPT !.normalizedTargetPath = ProbedTarget(norm).path]
              /\ pc' = "loop"
              /\ outcome' = outcome
  /\ UNCHANGED <<cli, scanner, fsKind, importMapFile, tsConfigFile, importers, importGroups,
                 readLog, lastResolve, parser>>

\* findImporters: one iteration of "Process each file".
ProcessFile ==
  /\ pc = "loop"
  /\ call.fn = "findImporters"
  /\ call.i <= Len(call.files)
  /\ LET filePath == call.files[call.i]
     IN  /\ importers' = importers \o MatchesOfFile(filePath, call)
         /\ readLog' = IF ReadsCandidate(filePath, call) THEN readLog \cup {filePath}
                       ELSE readLog
         /\ call' = [call EXCEPT !.i = @ + 1,
                                 !.imports = IF ReadsCandidate(filePath, call)
                                                  /\ parseImports(filePath).err = "none"
                                               THEN parseImports(filePath).imports
                                             ELSE @]
  /\ UNCHANGED <<cli, scanner, fsKind, importMapFile, tsConfigFile, pc, importGroups, outcome,
                 lastResolve, parser>>

\* findImporters: return importers.
ReturnImporters ==
  /\ pc = "loop"
  /\ call.fn = "findImporters"
  /\ call.i > Len(call.files)
  /\ pc' = "returned"
  /\ outcome' = [kind |-> "returned", value |-> importers]
  /\ UNCHANGED <<cli, scanner, fsKind, importMapFile, tsConfigFile, call, importers, importGroups,
                 readLog, lastResolve, parser>>

\* The array of the last call kept for the next one.
ImportersOfLastCall == importers

\* const importers: ResolvedImport[] = []
NewImporters == <<>>

\* findImporters is called once more, with the arguments of the call that
\* has returned, on the same file system.
CallFindImportersAgain ==
  /\ pc = "returned"
  /\ call.fn = "findImporters"
  /\ call' = [NoCall EXCEPT !.fn = "findImporters", !.target = call.target,
                            !.files = call.files, !.rootPath = call.rootPath,
                            !.importMap = LoadedImportMap, !.tsConfig = LoadedTsConfig,
                            !.normalizedTargetPath = Resolve(<<call.target>>), !.i = 1]
  /\ importers' = NewImporters
  /\ readLog' = {}
  /\ pc' = "target"
  /\ UNCHANGED <<cli, scanner, fsKind, importMapFile, tsConfigFile, importGroups, outcome,
                 lastResolve, parser>>

\* findDirectoryImporters(target, files, root) is called: the configuration is loaded.
CallFindDirectoryImporters(target, files) ==
  /\ pc = "idle"
  /\ call' = [NoCall EXCEPT !.fn = "findDirectoryImporters", !.target = target,
                            !.files = files, !.rootPath = Path.root,
                            !.importMap = LoadedImportMap, !.tsConfig = LoadedTsConfig,
                            !.normalizedTargetPath = Resolve(<<target>>),
                            !.isTargetDirectory = TRUE, !.i = 1]
  /\ pc' = "target"
  /\ UNCHANGED <<cli, scanner, fsKind, importMapFile, tsConfigFile, importers, importGroups, outcome,
                 readLog, lastResolve, parser>>

\* findDirectoryImporters: "Check if target is a directory".
CheckTargetDirectory ==
  /\ pc = "target"
  /\ call.fn = "findDirectoryImporters"
  /\ LET kind == Stat(call.normalizedTargetPath)
     IN  IF kind = "none"
           THEN pc' = "threw" /\ outcome' = [kind |-> "NotFound", value |-> <<>>]
         ELSE IF kind # "dir"
           THEN pc' = "threw" /\ outcome' = [kind |-> "NotADirectory", value |-> <<>>]
         ELSE pc' = "loop" /\ outcome' = outcome
  /\ UNCHANGED <<cli, scanner, fsKind, importMapFile, tsConfigFile, call, importers, importGroups,
                 readLog, lastResolve, parser>>

\* findDirectoryImporters: one iteration of "Process each file".
ProcessFileOfDirectory ==
  /\ pc = "loop"
  /\ call.fn = "findDirectoryImporters"
  /\ call.i <= Len(call.files)
  /\ LET filePath == call.files[call.i]
     IN  /\ importGroups' = AddMatches(importGroups, MatchesOfFile(filePath, call),
                                       call.normalizedTargetPath)
         /\ readLog' = IF ReadsCandidate(filePath, call) THEN readLog \cup {filePath}
                       ELSE readLog
         /\ call' = [call EXCEPT !.i = @ + 1,
                                 !.imports = IF ReadsCandidate(filePath, call)
                                                  /\ parseImports(filePath).err = "none"
                                               THEN parseImports(filePath).imports
                                             ELSE @]
  /\ UNCHANGED <<cli, scanner, fsKind, importMapFile, tsConfigFile, pc, importers, outcome,
                 lastResolve, parser>>

\* findDirectoryImporters: the groups are sorted, counted and returned.
ReturnDirectoryResult ==
  /\ pc = "loop"
  /\ call.fn = "findDirectoryImporters"
  /\ call.i > Len(call.files)
  /\ pc' = "returned"
  /\ outcome' = [kind |-> "returned", value |-> DirectoryResult(call, importGroups)]
  /\ UNCHANGED <<cli, scanner, fsKind, importMapFile, tsConfigFile, call, importers, importGroups,
                 readLog, lastResolve, parser>>

-----------------------------------------------------------------------------
(* parseImports called on a text, one line of its loop at a time *)

MaxLines == 3

NoParser == [lines |-> <<>>, i |-> 0, st |-> ParseStart]

\* The texts: up to MaxLines lines, each of them one of these.
ParseTexts ==
  LET lines == {LineImportFrom(Specifier.dotBts), Front(LineImportFrom(Specifier.dotBts)),
                LineRequire(Specifier.dotB),
                LineDynamic(Specifier.dotBts),
                LineRequireAndDynamic(Specifier.dotB, Specifier.dotBts),
                LineOpen, LineClose(Specifier.dotLx), LineCode, <<>>,
                LineComment(Specifier.dotBts), LineFunction}
  IN  UNION {[1..n -> lines] : n \in 0..MaxLines}

\* for (let i = 0; i < lines.length; i++): the body, on the next line.
ParseNextLine ==
  /\ pc = "parse"
  /\ parser.i <= Len(parser.lines)
  /\ parser' = [parser EXCEPT !.st = ParseLine(parser.st, parser.lines[parser.i], parser.i),
                              !.i = @ + 1]
  /\ UNCHANGED <<cli, scanner, fsKind, importMapFile, tsConfigFile, pc, call, importers, importGroups,
                 outcome, readLog, lastResolve>>

\* return imports
ParseReturn ==
  /\ pc = "parse"
  /\ parser.i > Len(parser.lines)
  /\ pc' = "parsed"
  /\ outcome' = [kind |-> "returned", value |-> parser.st.imports]
  /\ UNCHANGED <<cli, scanner, fsKind, importMapFile, tsConfigFile, call, importers, importGroups,
                 readLog, lastResolve, parser>>

-----------------------------------------------------------------------------
(* resolveImportPath called directly *)

NoResolve ==
  [called |-> FALSE, importerPath |-> <<>>, importPath |-> <<>>,
   importMap |-> NullImportMap, tsConfig |-> NullTsConfig, result |-> NullPath]

ResolveCall(importerPath, importPath, importMap, tsConfig) ==
  /\ pc = "resolve"
  /\ lastResolve' = [called |-> TRUE, importerPath |-> importerPath,
                     importPath |-> importPath, importMap |-> importMap,
                     tsConfig |-> tsConfig,
                     result |-> resolveImportPath(importerPath, importPath, importMap, tsConfig)]
  /\ pc' = "resolved"
  /\ UNCHANGED <<cli, scanner, fsKind, importMapFile, tsConfigFile, call, importers, importGroups,
                 outcome, readLog, parser>>

-----------------------------------------------------------------------------
(* The scanner: scan(rootPath, options) *)

\* const DEFAULT_OPTIONS
DEFAULT_OPTIONS ==
  [extensions |-> <<extensions[3], extensions[4], extensions[1], extensions[2],
                    extensions[5], extensions[6]>>,
   ignore |-> << <<"n", "o", "d", "e", "_", "m", "o", "d", "u", "l", "e", "s">>,
                 <<"d", "i", "s", "t">> >>,
   followSymlinks |-> FALSE,
   concurrency |-> 4]

\* options.<field> ?? DEFAULT_OPTIONS.<field>: options is a record that has
\* the fields that were given.
OrDefault(options, field) ==
  IF field \in DOMAIN options THEN options[field] ELSE DEFAULT_OPTIONS[field]

\* const mergedOptions: maxDepth stays undefined (no limit) when not given.
MergedOptions(options) ==
  [extensions |-> OrDefault(options, "extensions"),
   ignore |-> OrDefault(options, "ignore"),
   followSymlinks |-> OrDefault(options, "followSymlinks"),
   hasMaxDepth |-> "maxDepth" \in DOMAIN options,
   maxDepth |-> IF "maxDepth" \in DOMAIN options THEN options.maxDepth ELSE 0]

\* globToRegExp(pattern, { extended: true, globstar: true }).test(s), for
\* patterns of literal characters, "/" and "*": the regex is anchored at
\* both ends and "*" stands for any run of characters other than "/".
RECURSIVE GlobMatch(_, _)
GlobMatch(pattern, s) ==
  IF pattern = <<>> THEN s = <<>>
  ELSE IF Head(pattern) = "*"
    THEN \E k \in 0..Len(s) :
           /\ \A i \in 1..k : s[i] # Sep
           /\ GlobMatch(Tail(pattern), SubSeq(s, k + 1, Len(s)))
  ELSE s # <<>> /\ Head(s) = Head(pattern) /\ GlobMatch(Tail(pattern), Tail(s))

\* extname(path): from the last "." of the last segment on, or nothing when
\* the segment has no "." or only starts with one.
Extname(path) ==
  LET base == Last(SplitPath(path))
      dots == {i \in 1..Len(base) : base[i] = "."}
  IN  IF dots = {} \/ SetMax(dots) = 1 THEN <<>>
      ELSE SubSeq(base, SetMax(dots), Len(base))

\* fileInfo.ino of Deno.stat(entry.path): two paths have the same number when
\* one is a hard link to the other (linked: /r/b.ts is a link to /r/b).
Ino(path, linked) == IF linked /\ path = Path.bts THEN Path.b ELSE path

\* The entries walk(rootPath, walkOptions) yields: the files under the root,
\* not deeper than maxDepth (a file of the root itself is at depth 1).
WalkEntries(rootPath, merged) ==
  {f \in DOMAIN fsKind :
     /\ fsKind[f] = "file"
     /\ StartsWith(f, rootPath \o <<Sep>>)
     /\ merged.hasMaxDepth => Len(SplitPath(Relative(rootPath, f))) <= merged.maxDepth}

\* The entries walk can yield next: it goes through each directory in the
\* order readDir gives (any order) and is done with a directory it has
\* entered before it yields an entry outside of it.
WalkNext(rootPath, merged, walked) ==
  LET entries == WalkEntries(rootPath, merged)
      open    == {d \in DOMAIN fsKind :
                    /\ fsKind[d] = "dir"
                    /\ \E f \in walked : StartsWith(f, d \o <<Sep>>)
                    /\ \E f \in entries \ walked : StartsWith(f, d \o <<Sep>>)}
  IN  {f \in entries \ walked : \A d \in open : StartsWith(f, d \o <<Sep>>)}

\* const shouldIgnore = ignoreRegexes.some(...): some pattern matches the
\* path relative to the root, or one of its leading parts.
ShouldIgnore(rootPath, path, ignore) ==
  LET pathParts == SplitPath(Relative(rootPath, path))
  IN  \E r \in 1..Len(ignore), i \in 1..Len(pathParts) :
        GlobMatch(ignore[r], JoinSegs(SubSeq(pathParts, 1, i)))

NoScanner ==
  [rootPath |-> <<>>, mergedOptions |-> MergedOptions([followSymlinks |-> FALSE]),
   linked |-> FALSE, walked |-> {}, processedFiles |-> {}, processedInodes |-> {},
   matchedFiles |-> <<>>]

\* The options scan is called with: none; an ignore list with the name of a
\* directory and a glob; a list of extensions and a depth limit.
ScanOptions ==
  {[followSymlinks |-> FALSE],
   [followSymlinks |-> FALSE, ignore |-> <<SubSeq(Path.l, 4, 4), <<"*", ".", "j", "s">> >>],
   [followSymlinks |-> FALSE, extensions |-> <<extensions[1], extensions[2]>>, maxDepth |-> 1]}

\* scan(rootPath, options) is called: the options are merged, the caches and
\* the list are empty; walk throws when the root does not exist.
CallScan(rootPath, options, linked) ==
  /\ pc = "scan"
  /\ scanner' = [NoScanner EXCEPT !.rootPath = rootPath,
                                  !.mergedOptions = MergedOptions(options),
                                  !.linked = linked]
  /\ IF ExistsSync(rootPath)
       THEN pc' = "walk" /\ UNCHANGED outcome
     ELSE pc' = "threw" /\ outcome' = [kind |-> "threw", value |-> <<>>]
  /\ UNCHANGED <<cli, fsKind, importMapFile, tsConfigFile, call, importers, importGroups,
                 readLog, lastResolve, parser>>

\* for await (const entry of walk(...)): the body, on the next entry.
ScanEntry ==
  /\ pc = "walk"
  /\ \E path \in WalkNext(scanner.rootPath, scanner.mergedOptions, scanner.walked) :
       LET ino     == Ino(path, scanner.linked)
           skipped == ino \in scanner.processedInodes \/ path \in scanner.processedFiles
           matched == /\ ~skipped
                      /\ \E e \in 1..Len(scanner.mergedOptions.extensions) :
                           scanner.mergedOptions.extensions[e] = Extname(path)
                      /\ ~ShouldIgnore(scanner.rootPath, path, scanner.mergedOptions.ignore)
       IN  scanner' =
             [scanner EXCEPT
                !.walked = @ \cup {path},
                !.processedFiles = IF skipped THEN @ ELSE @ \cup {path},
                !.processedInodes = IF skipped THEN @ ELSE @ \cup {ino},
                !.matchedFiles = IF matched THEN Append(@, path) ELSE @]
  /\ UNCHANGED <<cli, fsKind, importMapFile, tsConfigFile, pc, call, importers, importGroups,
                 outcome, readLog, lastResolve, parser>>

\* return matchedFiles
ScanReturn ==
  /\ pc = "walk"
  /\ WalkNext(scanner.rootPath, scanner.mergedOptions, scanner.walked) = {}
  /\ pc' = "scanned"
  /\ outcome' = [kind |-> "returned", value |-> scanner.matchedFiles]
  /\ UNCHANGED <<cli, scanner, fsKind, importMapFile, tsConfigFile, call, importers,
                 importGroups, readLog, lastResolve, parser>>

-----------------------------------------------------------------------------
(* cli.ts and output.ts: main, from the parsed arguments to the lines it   *)
(* prints.  A printed line is [template, n, text]: the template literal    *)
(* and the number and the text put into it.                                *)

DEFAULT_CONCURRENCY == 4

\* The number a run of decimal digits stands for.
RECURSIVE DigitsValue(_)
DigitsValue(ds) ==
  IF ds = <<>> THEN 0
  ELSE LET digits == <<"0", "1", "2", "3", "4", "5", "6", "7", "8", "9">>
           d      == CHOOSE i \in 1..10 : digits[i] = Last(ds)
       IN  10 * DigitsValue(Front(ds)) + (d - 1)

\* parseInt(s, 10): an optional sign and the longest run of digits after it;
\* what follows the digits is dropped, and without a digit the value is NaN.
ParseInt(s) ==
  LET signed == s # <<>> /\ s[1] \in {"-", "+"}
      body   == IF signed THEN Tail(s) ELSE s
      isDigit(c) == c \in {"0", "1", "2", "3", "4", "5", "6", "7", "8", "9"}
      run    == SetMax({k \in 0..Len(body) : \A i \in 1..k : isDigit(body[i])})
      value  == DigitsValue(SubSeq(body, 1, run))
  IN  IF run = 0 THEN [nan |-> TRUE, n |-> 0]
      ELSE [nan |-> FALSE, n |-> IF signed /\ s[1] = "-" THEN 0 - value ELSE value]

NoOptions ==
  [target |-> <<>>, root |-> <<>>, json |-> FALSE,
   extensions |-> DEFAULT_OPTIONS.extensions, ignore |-> DEFAULT_OPTIONS.ignore,
   followSymlinks |-> FALSE, hasMaxDepth |-> FALSE, maxDepth |-> 0,
   concurrency |-> DEFAULT_CONCURRENCY]

\* parseArguments(args), from the record parseArgs gives (its default for
\* concurrency is the number 4, read back through toString): exit is the
\* code of Deno.exit, or -1 when the options are returned.  An empty string
\* is no value, for --max-depth and for --concurrency.
parseArguments(parsed) ==
  LET depth == ParseInt(parsed.maxDepth)
      conc  == ParseInt(parsed.concurrency)
      exit(code) == [exit |-> code, options |-> NoOptions]
  IN  IF parsed.version \/ parsed.help THEN exit(0)
      ELSE IF Len(parsed.positional) < 2 THEN exit(1)
      ELSE IF parsed.maxDepth # <<>> /\ (depth.nan \/ depth.n < 0) THEN exit(1)
      ELSE IF parsed.concurrency # <<>> /\ (conc.nan \/ conc.n <= 0) THEN exit(1)
      ELSE [exit |-> -1,
            options |->
              [NoOptions EXCEPT
                 !.target = parsed.positional[1],
                 !.root = parsed.positional[2],
                 !.hasMaxDepth = parsed.maxDepth # <<>>,
                 !.maxDepth = IF parsed.maxDepth # <<>> THEN depth.n ELSE 0,
                 !.concurrency = IF parsed.concurrency # <<>> THEN conc.n
                                 ELSE DEFAULT_CONCURRENCY]]

\* validateArguments(options) returns (TRUE) or exits with code 1 (FALSE):
\* the target exists, or is a file under one of the six extensions put in
\* place of its own; the root is a directory.
validateArguments(options) ==
  LET base  == StripExtension(options.target)
      found == \E e \in 1..Len(extensions) : Stat(base \o extensions[e]) = "file"
  IN  /\ Stat(options.target) = "none" => found
      /\ Stat(options.root) = "dir"

\* formatText(result): the summary line, and under it the importers.
formatText(result) ==
  LET summary ==
        IF result.count = 0
          THEN [template |-> "No files import \"${text}\"", n |-> 0, text |-> result.target]
        ELSE IF result.count = 1
          THEN [template |-> "1 file imports \"${text}\":", n |-> 0, text |-> result.target]
        ELSE [template |-> "${n} files import \"${text}\":", n |-> result.count,
              text |-> result.target]
  IN  IF result.count > 0
        THEN <<summary, [template |-> "Importers:", n |-> 0, text |-> <<>>]>>
             \o [k \in 1..Len(result.importers) |->
                   [template |-> "  ${text}", n |-> 0, text |-> result.importers[k]]]
      ELSE <<summary>>

RECURSIVE DirectoryTextFrom(_, _)

\* The loop with the header of every group on one line.
DirectoryTextOneLineFrom(groups, i) ==
  IF i >= Len(groups) THEN <<>>
  ELSE <<[template |-> "file ${text} imported by", n |-> 0,
          text |-> groups[i + 1].importedFile]>>
       \o [k \in 1..Len(groups[i + 1].importers) |->
             [template |-> " ${text}", n |-> 0,
              text |-> groups[i + 1].importers[k].sourceFile]]
       \o DirectoryTextFrom(groups, i + 1)

\* formatDirectoryText, the loop from the group of index i on (i counts
\* from 0, as in the source).
DirectoryTextFrom(groups, i) ==
  IF i >= Len(groups) THEN <<>>
  ELSE LET group  == groups[i + 1]
           header == IF i % 2 = 0
                       THEN <<[template |-> "file ${text} imported by", n |-> 0,
                               text |-> group.importedFile]>>
                     ELSE <<[template |-> "file ${text}", n |-> 0,
                             text |-> group.importedFile],
                            [template |-> "imported by", n |-> 0, text |-> <<>>]>>
       IN  header
           \o [k \in 1..Len(group.importers) |->
                 [template |-> " ${text}", n |-> 0, text |-> group.importers[k].sourceFile]]
           \o DirectoryTextFrom(groups, i + 1)

\* formatDirectoryText(result)
formatDirectoryText(result) ==
  IF result.count = 0
    THEN <<[template |-> "No files import anything from directory \"${text}\"", n |-> 0,
            text |-> result.target]>>
  ELSE DirectoryTextFrom(result.groups, 0)

NoResults == [target |-> <<>>, root |-> <<>>, count |-> 0, importers |-> <<>>, groups |-> <<>>]

\* Before main runs: exitCode is -1 as long as the process has not exited.
NoCli ==
  [parsed |-> [positional |-> <<>>, maxDepth |-> <<>>, concurrency |-> <<>>,
               version |-> FALSE, help |-> FALSE],
   options |-> NoOptions, validated |-> FALSE, isTargetDirectory |-> FALSE,
   exitCode |-> -1, results |-> NoResults, out |-> <<>>]

\* What parseArgs gives for the command lines main is run with: a file, a
\* directory, a name that exists only with an extension, nothing at all as
\* target; a missing root and a file as root; values of --max-depth and of
\* --concurrency; --help; one positional argument.
ParsedArgs ==
  LET base == [positional |-> <<Path.relBts, Path.root>>, maxDepth |-> <<>>,
               concurrency |-> <<"4">>, version |-> FALSE, help |-> FALSE]
  IN  {[base EXCEPT !.positional = <<t, Path.root>>] :
         t \in {Path.relBts, Path.relB, Path.l, Path.n, Path.missing}}
      \cup {[base EXCEPT !.positional = <<Path.relBts, r>>] : r \in {Path.missing, Path.a}}
      \cup {[base EXCEPT !.positional = <<Path.l, Path.root>>, !.maxDepth = d] :
              d \in {<<"3">>, <<"0">>, <<"-", "1">>, <<"3", "x">>, <<"2", ".", "5">>,
                     <<"i", "n", "v", "a", "l", "i", "d">>}}
      \cup {[base EXCEPT !.concurrency = c] :
              c \in {<<"8">>, <<"0">>, <<"-", "2">>, <<"8", "x">>, <<"x">>, <<>>}}
      \cup {[base EXCEPT !.help = TRUE], [base EXCEPT !.positional = <<Path.relBts>>]}

\* main, up to "await scan(...)": parseArguments, validateArguments, the
\* stat of the target as it was given (a NotFound it throws is caught at the
\* end of main, which exits with 1), and the call of scan.
MainStart(parsed) ==
  /\ pc = "main"
  /\ LET p       == parseArguments(parsed)
         options == p.options
         valid   == p.exit = -1 /\ validateArguments(options)
         kind    == Stat(options.target)
         scannerOptions ==
           IF options.hasMaxDepth
             THEN [extensions |-> options.extensions, ignore |-> options.ignore,
                   followSymlinks |-> options.followSymlinks,
                   maxDepth |-> options.maxDepth, concurrency |-> options.concurrency]
           ELSE [extensions |-> options.extensions, ignore |-> options.ignore,
                 followSymlinks |-> options.followSymlinks,
                 concurrency |-> options.concurrency]
     IN  IF p.exit # -1
           THEN /\ cli' = [cli EXCEPT !.parsed = parsed, !.exitCode = p.exit]
                /\ pc' = "exited"
                /\ UNCHANGED scanner
         ELSE IF ~valid \/ kind = "none"
           THEN /\ cli' = [cli EXCEPT !.parsed = parsed, !.options = options,
                                      !.validated = valid, !.exitCode = 1]
                /\ pc' = "exited"
                /\ UNCHANGED scanner
         ELSE /\ cli' = [cli EXCEPT !.parsed = parsed, !.options = options,
                                    !.validated = TRUE,
                                    !.isTargetDirectory = kind = "dir"]
              /\ scanner' = [NoScanner EXCEPT !.rootPath = options.root,
                                              !.mergedOptions = MergedOptions(scannerOptions)]
              /\ pc' = "walk"
  /\ UNCHANGED <<fsKind, importMapFile, tsConfigFile, call, importers, importGroups, outcome,
                 readLog, lastResolve, parser>>

\* main: scan has returned the files, and findDirectoryImporters or
\* findImporters is called with the target, the files and the root.
MainCallMatcher ==
  /\ pc = "scanned"
  /\ cli.validated
  /\ call' = [NoCall EXCEPT !.fn = IF cli.isTargetDirectory THEN "findDirectoryImporters"
                                   ELSE "findImporters",
                            !.target = cli.options.target, !.files = outcome.value,
                            !.rootPath = cli.options.root, !.importMap = LoadedImportMap,
                            !.tsConfig = LoadedTsConfig,
                            !.normalizedTargetPath = Resolve(<<cli.options.target>>),
                            !.isTargetDirectory = cli.isTargetDirectory, !.i = 1]
  /\ pc' = "target"
  /\ UNCHANGED <<cli, scanner, fsKind, importMapFile, tsConfigFile, importers, importGroups,
                 outcome, readLog, lastResolve, parser>>

\* main: the matcher has returned; the results are built and printed
\* (options.json is false, so the text formatters are the ones called).
MainFormat ==
  /\ pc = "returned"
  /\ cli.validated
  /\ cli.exitCode = -1
  /\ LET importerPaths == [k \in 1..Len(outcome.value) |-> outcome.value[k].sourceFile]
         results ==
           IF cli.isTargetDirectory
             THEN [NoResults EXCEPT !.target = outcome.value.target,
                                    !.root = outcome.value.root,
                                    !.count = outcome.value.count,
                                    !.groups = outcome.value.groups]
           ELSE [NoResults EXCEPT !.target = cli.options.target, !.root = cli.options.root,
                                  !.count = Len(importerPaths),
                                  !.importers = importerPaths]
     IN  cli' = [cli EXCEPT !.results = results,
                            !.out = IF cli.isTargetDirectory THEN formatDirectoryText(results)
                                    ELSE formatText(results)]
  /\ pc' = "done"
  /\ UNCHANGED <<scanner, fsKind, importMapFile, tsConfigFile, call, importers, importGroups,
                 outcome, readLog, lastResolve, parser>>

-----------------------------------------------------------------------------
(* Specifications *)

\* The trees the entry points are run on.
MatcherTrees ==
  {{Path.bts, Path.lindex}, {Path.bjs},
   {Path.b, Path.bts, Path.lindex, Path.lts}}

\* The states of import_map.json and tsconfig.json they are run with.
ConfigFiles ==
  {<<AbsentFile, AbsentFile>>,
   <<JsonFile(ImportMapButton), JsonFile(TsConfigPaths)>>,
   <<MalformedFile, JsonFile(TsConfigPaths)>>,
   <<JsonFile(ImportMapButton), MalformedFile>>}

InitCommon ==
  /\ call = NoCall
  /\ importers = <<>>
  /\ importGroups = <<>>
  /\ outcome = NoOutcome
  /\ readLog = {}
  /\ lastResolve = NoResolve
  /\ scanner = NoScanner
  /\ cli = NoCli

InitMatch ==
  /\ fsKind \in {FsWith(o) : o \in MatcherTrees}
  /\ \E cfg \in ConfigFiles : importMapFile = cfg[1] /\ tsConfigFile = cfg[2]
  /\ pc = "idle"
  /\ parser = NoParser
  /\ InitCommon

InitParse ==
  /\ fsKind = FsWith({Path.bts, Path.lindex})
  /\ importMapFile = AbsentFile
  /\ tsConfigFile = AbsentFile
  /\ pc = "parse"
  /\ parser \in {[lines |-> t, i |-> 1, st |-> ParseStart] : t \in ParseTexts}
  /\ InitCommon

InitResolve ==
  /\ fsKind \in {FsWith(o) : o \in SUBSET OptionalFiles}
  /\ importMapFile = AbsentFile
  /\ tsConfigFile = AbsentFile
  /\ pc = "resolve"
  /\ parser = NoParser
  /\ InitCommon

\* scan: on the tree without and with /r/b and /r/b.ts.
InitScan ==
  /\ fsKind \in {FsWith({}), FsWith({Path.b, Path.bts})}
  /\ importMapFile = AbsentFile
  /\ tsConfigFile = AbsentFile
  /\ pc = "scan"
  /\ parser = NoParser
  /\ InitCommon

\* main: on the tree with /r/b.ts, without import_map.json and tsconfig.json.
InitCli ==
  /\ fsKind = FsWith({Path.bts})
  /\ importMapFile = AbsentFile
  /\ tsConfigFile = AbsentFile
  /\ pc = "main"
  /\ parser = NoParser
  /\ InitCommon

Init == InitMatch \/ InitParse

NextMatch ==
  \/ \E target \in Targets, files \in FileLists : CallFindImporters(target, files)
  \/ NormalizeTarget
  \/ ProcessFile
  \/ ReturnImporters
  \/ CallFindImportersAgain
  \/ \E target \in Targets, files \in FileLists : CallFindDirectoryImporters(target, files)
  \/ CheckTargetDirectory
  \/ ProcessFileOfDirectory
  \/ ReturnDirectoryResult

NextParse == ParseNextLine \/ ParseReturn

NextResolve ==
  \E importerPath \in {Path.a, Path.c, Path.relBts},
     importPath \in {Specifier.dotBts, Specifier.dotB, Specifier.upB, Specifier.upBts,
                     Specifier.absBts, Path.b, Specifier.dotLx, Specifier.dotL,
                     Specifier.upLx, Specifier.button, Specifier.atB, Specifier.atCx,
                     Specifier.react, Path.relB},
     importMap \in {NullImportMap, ImportMapButton, ImportMapAt},
     tsConfig \in {NullTsConfig, TsConfigPaths} :
       ResolveCall(importerPath, importPath, importMap, tsConfig)

NextScan ==
  \/ \E rootPath \in {Path.root, Path.missing}, options \in ScanOptions, linked \in BOOLEAN :
       CallScan(rootPath, options, linked)
  \/ ScanEntry
  \/ ScanReturn

Next == NextMatch \/ NextParse

\* The two entry points on the fixture trees, and parseImports on every text.
Spec == Init /\ [][Next]_vars

\* scan alone.
SpecScan == InitScan /\ [][NextScan]_vars

NextCli ==
  \/ \E parsed \in ParsedArgs : MainStart(parsed)
  \/ ScanEntry
  \/ ScanReturn
  \/ MainCallMatcher
  \/ NormalizeTarget
  \/ ProcessFile
  \/ ReturnImporters
  \/ CheckTargetDirectory
  \/ ProcessFileOfDirectory
  \/ ReturnDirectoryResult
  \/ MainFormat

\* One run of the command line tool.
SpecCli == InitCli /\ [][NextCli]_vars

\* parseImports alone.
SpecParse == InitParse /\ [][NextParse]_vars

\* resolveImportPath alone, on every file system over the optional files.
SpecResolve == InitResolve /\ [][NextResolve]_vars

-----------------------------------------------------------------------------
(* Properties *)

\* The path is the target file, or lies inside the target directory.
IsTargetOrInside(path) ==
  IF call.isTargetDirectory
    THEN \/ Resolve(<<path>>) = call.normalizedTargetPath
         \/ StartsWith(Resolve(<<path>>), call.normalizedTargetPath \o <<Sep>>)
  ELSE Resolve(<<path>>) = call.normalizedTargetPath

\* The source files of the importers recorded so far, of either entry point,
\* and of the result once it is returned.
RecordedSourceFiles ==
  {importers[k].sourceFile : k \in 1..Len(importers)}
  \cup UNION {{importGroups[g].importers[k].sourceFile :
                 k \in 1..Len(importGroups[g].importers)} : g \in 1..Len(importGroups)}
  \cup (IF pc = "returned" /\ call.fn = "findDirectoryImporters"
          THEN UNION {{outcome.value.groups[g].importers[k].sourceFile :
                         k \in 1..Len(outcome.value.groups[g].importers)} :
                       g \in 1..Len(outcome.value.groups)}
        ELSE {})

\* The call is past the check of its target.
PastTarget == pc \in {"loop", "returned"}

\* C1: the target is never reported as importing itself: no importer entry
\* has the target file (or a file inside the target directory) as its source
\* file, and no such file is read for its imports.
C1_TargetNeverImportsItself ==
  PastTarget =>
    /\ \A f \in RecordedSourceFiles : ~IsTargetOrInside(f)
    /\ \A f \in readLog : ~IsTargetOrInside(f)

\* A call has returned whose file list held the target under a relative
\* name, and the target's own text imports the target.
C1_Witness ==
  /\ pc = "returned"
  /\ \E k \in 1..Len(call.files) :
       /\ IsTargetOrInside(call.files[k])
       /\ call.files[k] # Resolve(<<call.files[k]>>)
       /\ parseImports(call.files[k]).err = "none"
       /\ CollectMatches(call.files[k], parseImports(call.files[k]).imports, call) # <<>>

\* C2: every resolvedPath returned by findImporters is a normalized absolute
\* path that equals the normalized target (file mode) or has it as a prefix
\* (directory mode), absolute specifiers included.
C2_ResolvedPathIsNormalizedTarget ==
  (call.fn = "findImporters" /\ PastTarget) =>
    \A k \in 1..Len(importers) :
      /\ importers[k].resolvedPath = Resolve(<<importers[k].resolvedPath>>)
      /\ IF call.isTargetDirectory
           THEN StartsWith(importers[k].resolvedPath, call.normalizedTargetPath)
         ELSE importers[k].resolvedPath = call.normalizedTargetPath

\* The lines of the text that the loop of parseImports is done with.
LinesDone == 1..(parser.i - 1)

\* The records made so far that carry the line number n.
RecordsAt(n) == {k \in 1..Len(parser.st.imports) : parser.st.imports[k].lineNumber = n}

\* The line is of one of the recognized single-line ES6 or CommonJS forms.
IsStaticForm(line) ==
  ~IsBlank(line) /\ ~IsComment(line) /\ (FirstEs6(line).ok \/ FirstCjs(line).ok)

\* The record the line stands for, were it the only line of the text.
StaticRecord(line, n) ==
  IF FirstEs6(line).ok THEN ImportStatement("es6", FirstEs6(line).cap, FALSE, n)
  ELSE ImportStatement("commonjs", FirstCjs(line).cap, FALSE, n)

\* C3: a line of one of the recognized single-line ES6 or CommonJS forms
\* yields exactly one record, with the right kind, its specifier as written,
\* isDynamic false and its own line number, whatever lines precede it.
C3_StaticLineYieldsOneRecord ==
  (pc \in {"parse", "parsed"}) =>
    \A n \in LinesDone :
      IsStaticForm(parser.lines[n]) =>
        /\ Cardinality(RecordsAt(n)) = 1
        /\ \A k \in RecordsAt(n) :
             parser.st.imports[k] = StaticRecord(parser.lines[n], n)

\* The line holds a dynamic import(...) call.
HasDynamicImport(line) ==
  ~IsBlank(line) /\ ~IsComment(line) /\ MatchAnywhere(dynamicImportPattern, line).ok

\* C4: every dynamic import(...) call of a text is recorded by parseImports,
\* with isDynamic true (and no importer entry stems from such a record).
C4_EveryDynamicImportRecorded ==
  (pc \in {"parse", "parsed"}) =>
    \A n \in LinesDone :
      HasDynamicImport(parser.lines[n]) =>
        \E k \in RecordsAt(n) : parser.st.imports[k].isDynamic

\* The call of resolveImportPath was made with no alias configuration.
NoAliasConfig == lastResolve.importMap.isNull /\ lastResolve.tsConfig.isNull

\* The import map has the specifier, or a prefix of it, among its keys.
ImportMapCaptures(importMap, importPath) ==
  /\ ~importMap.isNull
  /\ \E i \in 1..Len(importMap.imports) : StartsWith(importPath, importMap.imports[i].key)

\* The positions of the wildcards of a paths pattern.
Stars(pattern) == {i \in 1..Len(pattern) : pattern[i] = "*"}

\* The specifier matches a pattern of one wildcard: it starts with what is
\* before the wildcard and ends with what is after it.
MatchesWildcard(pattern, importPath) ==
  LET star == SetMin(Stars(pattern))
      pre  == SubSeq(pattern, 1, star - 1)
      suf  == SubSeq(pattern, star + 1, Len(pattern))
  IN  /\ Cardinality(Stars(pattern)) = 1
      /\ Len(importPath) >= Len(pre) + Len(suf)
      /\ SubSeq(importPath, 1, Len(pre)) = pre
      /\ SubSeq(importPath, Len(importPath) - Len(suf) + 1, Len(importPath)) = suf

\* The span of the specifier that the wildcard of the pattern matches.
WildcardSpan(pattern, importPath) ==
  SubSeq(importPath, SetMin(Stars(pattern)),
         Len(importPath) - (Len(pattern) - SetMin(Stars(pattern))))

\* The template with its wildcard replaced by the span.
Substituted(template, span) ==
  IF Stars(template) = {} THEN template
  ELSE SubSeq(template, 1, SetMin(Stars(template)) - 1) \o span
       \o SubSeq(template, SetMin(Stars(template)) + 1, Len(template))

\* C5: when the first path-mapping pattern has one wildcard and the specifier
\* matches it (and no alias captures the specifier), resolveImportPath
\* returns resolve(importer directory, baseUrl, first template with the
\* wildcard's span substituted).
C5_WildcardSubstituted ==
  (/\ lastResolve.called
   /\ ~ImportMapCaptures(lastResolve.importMap, lastResolve.importPath)
   /\ ~lastResolve.tsConfig.isNull
   /\ MatchesWildcard(lastResolve.tsConfig.paths[1].pattern, lastResolve.importPath))
  => lastResolve.result =
       PathOf(Resolve(<<Dirname(lastResolve.importerPath), lastResolve.tsConfig.baseUrl,
                        Substituted(lastResolve.tsConfig.paths[1].replacements[1],
                                    WildcardSpan(lastResolve.tsConfig.paths[1].pattern,
                                                 lastResolve.importPath))>>))

\* The specifier is ./x for a name x.
IsDotSlashName(importPath) ==
  /\ Len(importPath) > 2
  /\ SubSeq(importPath, 1, 2) = <<".", "/">>
  /\ \A i \in 3..Len(importPath) : importPath[i] # "/"

\* dir/x for the importer dir/a.ts and the specifier ./x.
Beside(importerPath, importPath) ==
  Join(Resolve(<<Dirname(importerPath)>>), Slice(importPath, 2))

IsRelative(importPath) ==
  StartsWith(importPath, <<".", "/">>) \/ StartsWith(importPath, <<".", ".", "/">>)

\* The index.<ext> files of the directory that exist, by their place in the
\* order .ts, .tsx, .js, .jsx, .mjs, .cjs.
IndexesOf(dir) ==
  {e \in 1..Len(extensions) : ExistsSync(dir \o <<Sep>> \o sIndex \o extensions[e])}

\* C7: when a relative specifier resolves to an existing directory that has
\* an index.<ext> file, resolveImportPath returns the first such file in the
\* order of the extensions, not the directory path itself.
C7_DirectoryResolvesToIndex ==
  LET dir == Resolve(<<Dirname(lastResolve.importerPath), lastResolve.importPath>>)
  IN  (/\ lastResolve.called
       /\ NoAliasConfig
       /\ IsRelative(lastResolve.importPath)
       /\ Stat(dir) = "dir"
       /\ IndexesOf(dir) # {})
      => lastResolve.result =
           PathOf(dir \o <<Sep>> \o sIndex \o extensions[SetMin(IndexesOf(dir))])

\* The replacement the import map has for the specifier as a key.
AliasOf(importMap, importPath) ==
  importMap.imports[SetMin({i \in 1..Len(importMap.imports) :
                              importMap.imports[i].key = importPath})].value

\* The import map has the specifier, verbatim, among its keys.
HasAlias(importMap, importPath) ==
  /\ ~importMap.isNull
  /\ \E i \in 1..Len(importMap.imports) : importMap.imports[i].key = importPath

\* C8: a specifier that is verbatim a key of the import map resolves to the
\* alias replacement against the importer's directory, whatever the path
\* mapping holds.
C8_AliasBeatsPathMapping ==
  (lastResolve.called /\ HasAlias(lastResolve.importMap, lastResolve.importPath))
  => lastResolve.result =
       PathOf(Resolve(<<Dirname(lastResolve.importerPath),
                        AliasOf(lastResolve.importMap, lastResolve.importPath)>>))

\* @b was resolved with an import map that has it as a key and a path
\* mapping that has it as a pattern, with another replacement.
C8_Witness ==
  /\ lastResolve.called
  /\ lastResolve.importPath = Specifier.atB
  /\ HasAlias(lastResolve.importMap, Specifier.atB)
  /\ ~lastResolve.tsConfig.isNull
  /\ \E i \in 1..Len(lastResolve.tsConfig.paths) :
       /\ lastResolve.tsConfig.paths[i].pattern = Specifier.atB
       /\ lastResolve.tsConfig.paths[i].replacements[1]
            # AliasOf(lastResolve.importMap, Specifier.atB)
  /\ lastResolve.result = PathOf(Resolve(<<Dirname(lastResolve.importerPath), Specifier.bjs>>))

\* C9: with the import map {"button": "./b.ts"} at the root, the specifier
\* "button" resolves to <root>/b.ts from every importer under the root,
\* those of nested directories included.
C9_AliasResolvesAtRoot ==
  (/\ lastResolve.called
   /\ lastResolve.importMap = ImportMapButton
   /\ lastResolve.importPath = Specifier.button
   /\ StartsWith(Resolve(<<lastResolve.importerPath>>), Path.root \o <<Sep>>))
  => lastResolve.result =
       PathOf(Resolve(<<Path.root, AliasOf(ImportMapButton, Specifier.button)>>))

\* The target as the caller wrote it, made absolute.
WrittenTarget == Resolve(<<call.target>>)

\* The target of findImporters cannot be found: it is no directory, and no
\* file either, literally or under any of the six probed extensions.
FileTargetMissing ==
  /\ Stat(WrittenTarget) = "none"
  /\ \A e \in 1..Len(extensions) :
       Stat(StripExtension(WrittenTarget) \o extensions[e]) = "none"

\* The call is over with its target: it went on to the files, or threw.
TargetChecked == pc \in {"loop", "returned", "threw"}

Fails(filePath) == ~ExistsSync(filePath) \/ parseImports(filePath).err # "none"

\* The list without the files that fail.
RECURSIVE WithoutFailing(_)
WithoutFailing(files) ==
  IF files = <<>> THEN <<>>
  ELSE (IF Fails(Head(files)) THEN <<>> ELSE <<Head(files)>>) \o WithoutFailing(Tail(files))

\* What findImporters returns for a list of files none of which fails.
RECURSIVE ImportersOf(_)
ImportersOf(files) ==
  IF files = <<>> THEN <<>>
  ELSE MatchesOfFile(Head(files), call) \o ImportersOf(Tail(files))

\* The Map findDirectoryImporters builds for a list of files none of which
\* fails.
RECURSIVE GroupsOf(_)
GroupsOf(files) ==
  IF files = <<>> THEN <<>>
  ELSE AddMatches(GroupsOf(Front(files)), MatchesOfFile(Last(files), call),
                  call.normalizedTargetPath)

RecordedEntries ==
  {<<importers[k].sourceFile, importers[k].lineNumber>> : k \in 1..Len(importers)}
  \cup UNION {{<<importGroups[g].importers[k].sourceFile,
                 importGroups[g].importers[k].lineNumber>> :
                 k \in 1..Len(importGroups[g].importers)} : g \in 1..Len(importGroups)}

\* The import of the file resolves to a path inside the target directory.
ResolvesInsideTarget(filePath, imp) ==
  LET r == resolveImportPath(filePath, imp.module, call.importMap, call.tsConfig)
  IN  ~r.isNull /\ StartsWith(Resolve(<<r.path>>), call.normalizedTargetPath \o <<Sep>>)

\* C12: in directory-target mode every candidate outside the target directory
\* is processed: each of its static imports that resolves inside the target
\* directory is recorded, also when the candidate's directory has a name that
\* starts with the name of the target directory.
C12_OutsideCandidatesProcessed ==
  (pc = "returned" /\ call.isTargetDirectory) =>
    \A j \in 1..Len(call.files) :
      LET f == call.files[j]
      IN  (~Fails(f) /\ ~IsTargetOrInside(f)) =>
            \A k \in 1..Len(parseImports(f).imports) :
              LET imp == parseImports(f).imports[k]
              IN  (~imp.isDynamic /\ ResolvesInsideTarget(f, imp)) =>
                    <<f, imp.lineNumber>> \in RecordedEntries

\* The sequence is in the order of localeCompare on the field named.
InOrder(seq, field) ==
  \A g, h \in 1..Len(seq) : g < h => ~ComesBefore(seq[h][field], seq[g][field])

\* The lists that hold the same files, in every order.
Reorderings(files) ==
  {[j \in 1..Len(files) |-> files[p[j]]] :
     p \in {q \in [1..Len(files) -> 1..Len(files)] :
              \A a, b \in 1..Len(files) : q[a] = q[b] => a = b}}

\* C13: the groups findDirectoryImporters returns are sorted by referenced
\* path, the importers of each group are sorted by source path, and groups,
\* importer order and count are the same for every permutation of the list
\* of files.
C13_DirectoryResultSorted ==
  (pc = "returned" /\ call.fn = "findDirectoryImporters") =>
    /\ InOrder(outcome.value.groups, "importedFile")
    /\ \A g, h \in 1..Len(outcome.value.groups) :
         g # h => outcome.value.groups[g].importedFile # outcome.value.groups[h].importedFile
    /\ \A g \in 1..Len(outcome.value.groups) :
         InOrder(outcome.value.groups[g].importers, "sourceFile")
    /\ outcome.value.count = SumImporters(outcome.value.groups)
    /\ \A files \in Reorderings(call.files) :
         outcome.value = DirectoryResult(call, GroupsOf(files))

\* A result was returned with a group whose importers were not found in the
\* order they are returned in.
C13_Witness ==
  /\ pc = "returned"
  /\ call.fn = "findDirectoryImporters"
  /\ \E g \in 1..Len(importGroups) :
       ~InOrder(importGroups[g].importers, "sourceFile")

\* The place of the file in the list of files.
PlaceOf(filePath) == SetMin({j \in 1..Len(call.files) : call.files[j] = filePath})

\* C14: the entries findImporters returns follow the list of files: an entry
\* of a file earlier in the list comes before every entry of a file later in
\* it, and the entries of one file come by increasing line number (as the
\* records of parseImports do).
C14_ResultFollowsFileOrder ==
  /\ (PastTarget /\ call.fn = "findImporters") =>
       \A k, m \in 1..Len(importers) :
         k < m =>
           /\ PlaceOf(importers[k].sourceFile) <= PlaceOf(importers[m].sourceFile)
           /\ importers[k].sourceFile = importers[m].sourceFile
                => importers[k].lineNumber < importers[m].lineNumber
  /\ (pc = "returned" /\ call.fn = "findImporters") => outcome.value = importers
  /\ (pc \in {"parse", "parsed"}) =>
       \A k, m \in 1..Len(parser.st.imports) :
         k < m => parser.st.imports[k].lineNumber < parser.st.imports[m].lineNumber

\* findImporters has returned, for a file target, entries of two files, two
\* of them of one file.
C14_Witness ==
  /\ pc = "returned"
  /\ call.fn = "findImporters"
  /\ ~call.isTargetDirectory
  /\ \E k, m, n \in 1..Len(outcome.value) :
       /\ k < m /\ m < n
       /\ outcome.value[k].sourceFile = outcome.value[m].sourceFile
       /\ outcome.value[m].sourceFile # outcome.value[n].sourceFile

UsableConfig(file, null) == IF file.st = "ok" THEN file.value ELSE null

\* C16: a malformed import_map.json or tsconfig.json makes its load call
\* fail, an absent one makes it return null; the matcher goes on without the
\* configuration that failed, with the other one loaded, and returns the
\* matches that can be had so.
C16_MalformedConfigOnlyDropped ==
  /\ LoadJson(importMapFile, NullImportMap).threw <=> importMapFile.st = "malformed"
  /\ LoadJson(tsConfigFile, NullTsConfig).threw <=> tsConfigFile.st = "malformed"
  /\ importMapFile.st = "absent" => LoadJson(importMapFile, NullImportMap).value = NullImportMap
  /\ tsConfigFile.st = "absent" => LoadJson(tsConfigFile, NullTsConfig).value = NullTsConfig
  /\ call.fn # "none" =>
       /\ call.importMap = UsableConfig(importMapFile, NullImportMap)
       /\ call.tsConfig = UsableConfig(tsConfigFile, NullTsConfig)
  /\ (TargetChecked /\ call.fn = "findImporters") => (pc = "threw" <=> FileTargetMissing)
  /\ (pc = "returned" /\ call.fn = "findImporters") =>
       \A j \in 1..Len(call.files) :
         LET f == call.files[j]
         IN  (~Fails(f) /\ ~IsTargetOrInside(f)) =>
               \A k \in 1..Len(parseImports(f).imports) :
                 LET imp == parseImports(f).imports[k]
                     r   == resolveImportPath(f, imp.module,
                                              UsableConfig(importMapFile, NullImportMap),
                                              UsableConfig(tsConfigFile, NullTsConfig))
                 IN  (~imp.isDynamic /\ ~r.isNull /\ ~call.isTargetDirectory
                      /\ Resolve(<<r.path>>) = call.normalizedTargetPath) =>
                        <<f, imp.lineNumber>> \in RecordedEntries

\* A call has returned, with import_map.json malformed, a match made through
\* the paths of tsconfig.json.
C16_Witness ==
  /\ pc = "returned"
  /\ call.fn = "findImporters"
  /\ importMapFile.st = "malformed"
  /\ tsConfigFile.st = "ok"
  /\ \E k \in 1..Len(outcome.value) : outcome.value[k].importPath = Specifier.atB

\* A pattern of the path mapping applies to the specifier: the pattern is
\* the specifier, or has one wildcard and the specifier matches it.
PatternApplies(tsConfig, importPath) ==
  /\ ~tsConfig.isNull
  /\ \E i \in 1..Len(tsConfig.paths) :
       \/ tsConfig.paths[i].pattern = importPath
       \/ MatchesWildcard(tsConfig.paths[i].pattern, importPath)

\* Nothing exists for the path: not the path itself, not the path with its
\* extension replaced by one of the extensions, not an index file under it.
NothingExistsFor(resolved) ==
  /\ ~ExistsSync(resolved)
  /\ \A e \in 1..Len(extensions) :
       /\ ~ExistsSync(StripExtension(resolved) \o extensions[e])
       /\ ~ExistsSync(resolved \o extensions[e])
  /\ IndexesOf(resolved) = {}

RecordedRelative ==
  {[sourceFile |-> importers[k].sourceFile, importPath |-> importers[k].importPath,
    resolvedPath |-> importers[k].resolvedPath] :
     k \in {k \in 1..Len(importers) : IsRelative(importers[k].importPath)}}
  \cup UNION {
    {[sourceFile |-> importGroups[g].importers[k].sourceFile,
      importPath |-> importGroups[g].importers[k].importPath,
      resolvedPath |-> resolveImportPath(importGroups[g].importers[k].sourceFile,
                                         importGroups[g].importers[k].importPath,
                                         call.importMap, call.tsConfig).path] :
       k \in {k \in 1..Len(importGroups[g].importers) :
                IsRelative(importGroups[g].importers[k].importPath)}} :
    g \in 1..Len(importGroups)}

\* C18: no entry is recorded for a relative specifier that resolves to a
\* path where nothing exists, whether the target is a file or a directory.
C18_NoMatchForMissingFile ==
  \A e \in RecordedRelative : ExistsSync(e.resolvedPath)

\* The line is a single-line ES6 import written without the semicolon: with
\* a semicolon after it, it is of one of the recognized ES6 forms.
IsEs6WithoutSemicolon(line) ==
  /\ line # <<>>
  /\ Last(line) # Punct(";")
  /\ FirstEs6(line \o <<Punct(";")>>).ok

\* C19: a single-line ES6 import written without the trailing semicolon
\* (import x from 'module') is recorded as the same line with the semicolon
\* is: one ES6 record with its specifier and its line number. Stated for the
\* lines that no opened multi-line import precedes.
C19_NoSemicolonRecorded ==
  (pc \in {"parse", "parsed"}) =>
    \A n \in LinesDone :
      (/\ IsEs6WithoutSemicolon(parser.lines[n])
       /\ \A m \in 1..(n - 1) : ~StartsMultiLine(parser.lines[m]))
      => \E k \in RecordsAt(n) :
           parser.st.imports[k] =
             StaticRecord(parser.lines[n] \o <<Punct(";")>>, n)

\* The string ends with the suffix.
EndsWith(str, suffix) ==
  Len(suffix) <= Len(str) /\ SubSeq(str, Len(str) - Len(suffix) + 1, Len(str)) = suffix

\* The path ends with one of the extensions scan was called for.
HasAllowedExtension(path) ==
  \E e \in 1..Len(scanner.mergedOptions.extensions) :
    EndsWith(path, scanner.mergedOptions.extensions[e])

\* The leading parts of the path relative to the root of the scan, the whole
\* relative path included.
LeadingParts(path) ==
  LET parts == SplitPath(Slice(path, Len(scanner.rootPath) + 1))
  IN  {JoinSegs(SubSeq(parts, 1, i)) : i \in 1..Len(parts)}

\* An ignore pattern matches the path or one of its leading parts.
IsIgnored(path) ==
  \E r \in 1..Len(scanner.mergedOptions.ignore), part \in LeadingParts(path) :
    GlobMatch(scanner.mergedOptions.ignore[r], part)

\* The files under the root of the scan that are within its depth limit.
FilesInReach ==
  {f \in DOMAIN fsKind :
     /\ fsKind[f] = "file"
     /\ StartsWith(f, scanner.rootPath \o <<Sep>>)
     /\ scanner.mergedOptions.hasMaxDepth =>
          Cardinality(LeadingParts(f)) <= scanner.mergedOptions.maxDepth}

\* What is in the list scan returns: no path twice, only paths with an
\* allowed extension that no ignore pattern matches.
ScanListFiltered ==
  (pc = "scanned") =>
    /\ \A i, j \in 1..Len(outcome.value) : outcome.value[i] = outcome.value[j] => i = j
    /\ \A i \in 1..Len(outcome.value) :
         HasAllowedExtension(outcome.value[i]) /\ ~IsIgnored(outcome.value[i])

\* C20: the list scan returns has no path twice, only paths with an allowed
\* extension that no ignore pattern matches (them or a leading part of
\* them), and every file under the root within the depth limit with an
\* allowed extension that no ignore pattern matches.
C20_ScanFilteredAndComplete ==
  /\ ScanListFiltered
  /\ (pc = "scanned") =>
       \A f \in FilesInReach :
         (HasAllowedExtension(f) /\ ~IsIgnored(f)) =>
           \E i \in 1..Len(outcome.value) : outcome.value[i] = f

\* The places of the keys of the import map that are a prefix of the
\* specifier, in declaration order.
PrefixKeys(importMap, importPath) ==
  {i \in 1..Len(importMap.imports) : StartsWith(importPath, importMap.imports[i].key)}

\* C22: when the specifier is not verbatim a key of the import map but some
\* keys are a prefix of it, resolveImportPath returns resolve(importer
\* directory, replacement of the first such key in declaration order, rest
\* of the specifier after that key), whatever the path mapping holds and
\* whether the specifier is relative or not.
C22_FirstPrefixKeyWins ==
  (/\ lastResolve.called
   /\ ~HasAlias(lastResolve.importMap, lastResolve.importPath)
   /\ ImportMapCaptures(lastResolve.importMap, lastResolve.importPath))
  => LET e == lastResolve.importMap.imports[
                SetMin(PrefixKeys(lastResolve.importMap, lastResolve.importPath))]
     IN  lastResolve.result =
           PathOf(Resolve(<<Dirname(lastResolve.importerPath), e.value,
                            Slice(lastResolve.importPath, Len(e.key))>>))

\* @c/x.ts was resolved with an import map that has the keys @c/ and, after
\* it, @c/x, and a path mapping with a pattern for @c/*: the result is made
\* with the replacement of @c/.
C22_Witness ==
  /\ lastResolve.called
  /\ lastResolve.importPath = Specifier.atCx
  /\ Cardinality(PrefixKeys(lastResolve.importMap, Specifier.atCx)) = 2
  /\ ~lastResolve.tsConfig.isNull
  /\ lastResolve.result =
       PathOf(Resolve(<<Dirname(lastResolve.importerPath), Specifier.l2,
                        Slice(Specifier.atCx, 3)>>))

\* The line opens a named import that it does not close: import { ... with
\* no closing brace.
IsNamedOpening(line) ==
  /\ Len(line) >= 2
  /\ line[1] = Kw("import")
  /\ line[2] = Punct("{")
  /\ ~LineIncludes(line, <<"}">>)

\* The lines n to m of the text put together, the blank lines and the
\* comments left out.
RECURSIVE Aggregated(_, _)
Aggregated(n, m) ==
  IF n > m THEN <<>>
  ELSE (IF IsBlank(parser.lines[n]) \/ IsComment(parser.lines[n]) THEN <<>>
        ELSE parser.lines[n]) \o Aggregated(n + 1, m)

\* Line n opens a named import with no accumulation under way (no line
\* before it holds both "import" and "{"), and m is the first line after it
\* that is no blank line, no comment and holds "from".
AccumulatesOver(n, m) ==
  /\ n < m
  /\ IsNamedOpening(parser.lines[n])
  /\ \A k \in 1..(n - 1) : ~StartsMultiLine(parser.lines[k])
  /\ ~IsBlank(parser.lines[m]) /\ ~IsComment(parser.lines[m])
  /\ LineIncludes(parser.lines[m], Word.from)
  /\ \A k \in (n + 1)..(m - 1) :
       IsBlank(parser.lines[k]) \/ IsComment(parser.lines[k])
       \/ ~LineIncludes(parser.lines[k], Word.from)

\* C23: when line n opens a named import and m is the first line after it
\* that holds "from", the lines n to m yield one ES6 record, with line number
\* n, if their aggregated text matches the named-import pattern and no
\* record otherwise, and the accumulator is empty after line m.
C23_MultiLineAccumulation ==
  (pc \in {"parse", "parsed"}) =>
    \A n, m \in LinesDone :
      AccumulatesOver(n, m) =>
        LET match == MatchStart(multiLinePattern, Aggregated(n, m))
        IN  /\ \A k \in (n + 1)..m : RecordsAt(k) = {}
            /\ Cardinality(RecordsAt(n)) = (IF match.ok THEN 1 ELSE 0)
            /\ \A k \in RecordsAt(n) :
                 parser.st.imports[k] = ImportStatement("es6", match.cap, FALSE, n)
            /\ parser.i = m + 1 => parser.st.multiLineImport = <<>>

\* C24: the records of parseImports are in line order: their line numbers
\* are strictly increasing and lie between 1 and the number of lines of the
\* text, and no line (nor multi-line import) has more than one record.
C24_RecordsInLineOrder ==
  (pc \in {"parse", "parsed"}) =>
    /\ \A k, m \in 1..Len(parser.st.imports) :
         k < m => parser.st.imports[k].lineNumber < parser.st.imports[m].lineNumber
    /\ \A k \in 1..Len(parser.st.imports) :
         parser.st.imports[k].lineNumber \in 1..Len(parser.lines)
    /\ \A n \in 1..Len(parser.lines) : Cardinality(RecordsAt(n)) <= 1
    /\ pc = "parsed" => outcome.value = parser.st.imports

\* parseImports has returned a record of a single line followed by the
\* record of a multi-line import, which carries the number of its first line.
C24_Witness ==
  /\ pc = "parsed"
  /\ Len(outcome.value) = 2
  /\ outcome.value[1].lineNumber = 1
  /\ outcome.value[2].lineNumber = 2
  /\ IsNamedOpening(parser.lines[2])
  /\ Len(parser.lines) = 3

\* C27: in what findDirectoryImporters returns every group has a key of its
\* own, which is a non-empty path relative to the target directory that
\* does not begin with "..", and names a file inside the target directory.
C27_GroupKeysInsideTarget ==
  (pc = "returned" /\ call.fn = "findDirectoryImporters") =>
    /\ \A g, h \in 1..Len(outcome.value.groups) :
         g # h => outcome.value.groups[g].importedFile # outcome.value.groups[h].importedFile
    /\ \A g \in 1..Len(outcome.value.groups) :
         LET key == outcome.value.groups[g].importedFile
         IN  /\ key # <<>>
             /\ ~StartsWith(key, DotDotSeg)
             /\ key[1] # Sep
             /\ Stat(call.normalizedTargetPath \o <<Sep>> \o key) = "file"

\* The importer entries of a sequence of groups, each by the index of its
\* group and its index in the group.
EntriesOf(groups) ==
  UNION {{<<g, k>> : k \in 1..Len(groups[g].importers)} : g \in 1..Len(groups)}

\* C28: in what findDirectoryImporters returns, count is the number of
\* importer entries over all groups, every group has an importer at least,
\* and count is 0 exactly when there is no group.
C28_CountIsSumOfGroups ==
  (pc = "returned" /\ call.fn = "findDirectoryImporters") =>
    /\ outcome.value.count = Cardinality(EntriesOf(outcome.value.groups))
    /\ \A g \in 1..Len(outcome.value.groups) : Len(outcome.value.groups[g].importers) >= 1
    /\ outcome.value.count = 0 <=> outcome.value.groups = <<>>

\* A result was returned with two groups at least, one of them with two
\* importers at least.
C28_Witness ==
  /\ pc = "returned"
  /\ call.fn = "findDirectoryImporters"
  /\ Len(outcome.value.groups) >= 2
  /\ \E g \in 1..Len(outcome.value.groups) : Len(outcome.value.groups[g].importers) >= 2

\* How many times the entry <<sourceFile, importPath, lineNumber>> is in a
\* list of entries of findImporters.
TimesInList(list, e) ==
  Cardinality({k \in 1..Len(list) :
                 <<list[k].sourceFile, list[k].importPath, list[k].lineNumber>> = e})

\* How many times it is among the importers of the groups.
TimesInGroups(groups, e) ==
  Cardinality({p \in EntriesOf(groups) :
                 LET imp == groups[p[1]].importers[p[2]]
                 IN  <<imp.sourceFile, imp.importPath, imp.lineNumber>> = e})

\* The list and the groups hold the same entries, each as many times.
SameEntries(list, groups) ==
  /\ \A k \in 1..Len(list) :
       LET e == <<list[k].sourceFile, list[k].importPath, list[k].lineNumber>>
       IN  TimesInList(list, e) = TimesInGroups(groups, e)
  /\ \A p \in EntriesOf(groups) :
       LET imp == groups[p[1]].importers[p[2]]
           e   == <<imp.sourceFile, imp.importPath, imp.lineNumber>>
       IN  TimesInList(list, e) = TimesInGroups(groups, e)

\* C29: for an existing directory as target, what findImporters returns and
\* the importers of the groups findDirectoryImporters returns for the same
\* list of files are the same entries, each as many times, and each entry is
\* in the group of its resolved path made relative to the target.
C29_EntryPointsAgreeOnDirectory ==
  /\ (pc = "returned" /\ call.fn = "findImporters" /\ call.isTargetDirectory) =>
       SameEntries(outcome.value, DirectoryResult(call, GroupsOf(call.files)).groups)
  /\ (pc = "returned" /\ call.fn = "findDirectoryImporters") =>
       /\ SameEntries(ImportersOf(call.files), outcome.value.groups)
       /\ \A p \in EntriesOf(outcome.value.groups) :
            LET imp == outcome.value.groups[p[1]].importers[p[2]]
                r   == resolveImportPath(imp.sourceFile, imp.importPath,
                                         call.importMap, call.tsConfig)
            IN  outcome.value.groups[p[1]].importedFile
                  = Relative(call.normalizedTargetPath, r.path)

\* findDirectoryImporters has returned a group with two importers, found in
\* two files.
C29_Witness ==
  /\ pc = "returned"
  /\ call.fn = "findDirectoryImporters"
  /\ \E g \in 1..Len(outcome.value.groups) :
       /\ Len(outcome.value.groups[g].importers) >= 2
       /\ outcome.value.groups[g].importers[1].sourceFile
            # outcome.value.groups[g].importers[2].sourceFile

\* The run was given both positional arguments and neither --help nor
\* --version, and parseArguments is over.
ParsedForRun ==
  /\ pc # "main"
  /\ Len(cli.parsed.positional) >= 2
  /\ ~cli.parsed.help /\ ~cli.parsed.version

\* The text is a decimal numeral of an integer greater than zero.
IsPositiveInteger(s) ==
  /\ s # <<>>
  /\ \A i \in 1..Len(s) : s[i] \in {"0", "1", "2", "3", "4", "5", "6", "7", "8", "9"}
  /\ DigitsValue(s) > 0

\* C21: parseArguments exits with code 1 whenever the value given for
\* --max-depth is not a positive integer and whenever the value given for
\* --concurrency is not a positive integer; otherwise the options it returns
\* carry those integers, concurrency being 4 and maxDepth undefined when no
\* value is given.
C21_NumbersArePositiveIntegers ==
  ParsedForRun =>
    LET depth == cli.parsed.maxDepth
        conc  == cli.parsed.concurrency
        bad   == \/ depth # <<>> /\ ~IsPositiveInteger(depth)
                 \/ conc # <<>> /\ ~IsPositiveInteger(conc)
    IN  IF bad THEN cli.exitCode = 1 /\ cli.options = NoOptions
        ELSE /\ cli.options.hasMaxDepth = (depth # <<>>)
             /\ depth # <<>> => cli.options.maxDepth = DigitsValue(depth)
             /\ cli.options.concurrency =
                  IF conc # <<>> THEN DigitsValue(conc) ELSE DEFAULT_CONCURRENCY

\* C25: when validateArguments accepts the target, also one that exists
\* only under one of the probed extensions, main goes on to scan and to
\* the matcher: the run does not exit.
C25_AcceptedTargetIsScanned == cli.validated => cli.exitCode = -1 /\ pc # "exited"

\* main has printed the result of a file target.
FileTargetDone == pc = "done" /\ ~cli.isTargetDirectory

\* C26: in the result of a file target every importing file is listed once,
\* and the count is the number of distinct files that import the target.
C26_EachImporterListedOnce ==
  FileTargetDone =>
    LET list == cli.results.importers
    IN  /\ \A i, j \in 1..Len(list) : list[i] = list[j] => i = j
        /\ cli.results.count = Cardinality({list[i] : i \in 1..Len(list)})

\* The number of lines printed for the groups before the one of index g
\* (from 0): one header line at an even index and two at an odd one, and a
\* line for each importer.
RECURSIVE LinesBefore(_, _)
LinesBefore(groups, g) ==
  IF g = 0 THEN 0
  ELSE LinesBefore(groups, g - 1) + (IF (g - 1) % 2 = 0 THEN 1 ELSE 2)
       + Len(groups[g].importers)

\* main has printed the result of a directory target.
DirectoryTargetDone == pc = "done" /\ cli.isTargetDirectory

\* C30: formatDirectoryText prints the one line "No files import anything
\* from directory" when count is 0; otherwise the groups in order, the
\* header of a group at an even index on one line, that of a group at an odd
\* index on two, and after each header a line for each importer in order.
C30_DirectoryTextLayout ==
  DirectoryTargetDone =>
    LET result == cli.results
        groups == result.groups
        out    == cli.out
        line(t, x) == [template |-> t, n |-> 0, text |-> x]
    IN  IF result.count = 0
          THEN out = <<line("No files import anything from directory \"${text}\"",
                            result.target)>>
        ELSE /\ Len(out) = LinesBefore(groups, Len(groups))
             /\ \A g \in 1..Len(groups) :
                  LET at     == LinesBefore(groups, g - 1)
                      header == IF (g - 1) % 2 = 0 THEN 1 ELSE 2
                  IN  /\ IF header = 1
                           THEN out[at + 1] = line("file ${text} imported by",
                                                   groups[g].importedFile)
                         ELSE /\ out[at + 1] = line("file ${text}", groups[g].importedFile)
                              /\ out[at + 2] = line("imported by", <<>>)
                      /\ \A k \in 1..Len(groups[g].importers) :
                           out[at + header + k] =
                             line(" ${text}", groups[g].importers[k].sourceFile)

\* A directory target with several groups has been printed, one of them with
\* several importers.
C30_Witness ==
  /\ DirectoryTargetDone
  /\ Len(cli.results.groups) >= 3
  /\ \E g \in 1..Len(cli.results.groups) : Len(cli.results.groups[g].importers) >= 2
  /\ Len(cli.out) > Len(cli.results.groups)

====
